---- MODULE Spec2Model ----
(***************************************************************************)
(* Model of the TradingAI backend: the Express service of server.js        *)
(* (EnhancedFinancialService and its routes) and the serverless analyze    *)
(* handlers.  One request is followed from its arrival to the response and *)
(* to the settling of every upstream HTTP call made on its behalf.         *)
(*                                                                         *)
(* A JavaScript string is a sequence of one-character strings, so that     *)
(* toUpperCase, toLowerCase, includes and substring are computed.          *)
(***************************************************************************)
EXTENDS Integers, Sequences, FiniteSets, TLC

VARIABLES
    route,      \* the entry point that serves the request
    keys,       \* provider credentials read from process.env by the constructor
    req,        \* the request: [method, symbol]
    pc,         \* position of the handler: "start", "batch1", "batch2", "done"
    inflight,   \* upstream HTTP calls issued and not yet settled
    http,       \* per upstream endpoint, the symbols of the HTTP requests issued
    result,     \* settled adapter promises: adapter -> value
    order,      \* the adapters in the order their promises settled
    locals,     \* the handler's local variables once assigned
    resp        \* the responses written, in order: <<[status, body]>>

vars == <<route, keys, req, pc, inflight, http, result, order, locals, resp>>

----------------------------------------------------------------------------
(* JavaScript strings *)

LowerChars == <<"a","b","c","d","e","f","g","h","i","j","k","l","m","n","o","p","q","r","s","t","u","v","w","x","y","z">>
UpperChars == <<"A","B","C","D","E","F","G","H","I","J","K","L","M","N","O","P","Q","R","S","T","U","V","W","X","Y","Z">>

toUpperChar(c) ==
    IF \E i \in 1..26 : LowerChars[i] = c
    THEN UpperChars[CHOOSE i \in 1..26 : LowerChars[i] = c] ELSE c

toLowerChar(c) ==
    IF \E i \in 1..26 : UpperChars[i] = c
    THEN LowerChars[CHOOSE i \in 1..26 : UpperChars[i] = c] ELSE c

toUpperCase(s) == [i \in 1..Len(s) |-> toUpperChar(s[i])]
toLowerCase(s) == [i \in 1..Len(s) |-> toLowerChar(s[i])]

\* s.substring(0, n)
substring0(s, n) == SubSeq(s, 1, IF Len(s) < n THEN Len(s) ELSE n)

\* s.startsWith(p)
startsWith(s, p) == Len(p) <= Len(s) /\ SubSeq(s, 1, Len(p)) = p

\* s.includes(w)
includes(s, w) ==
    \E i \in 0..(Len(s) - Len(w)) : SubSeq(s, i + 1, i + Len(w)) = w

----------------------------------------------------------------------------
(* Request symbols.  t is the JavaScript type of req.body.symbol. *)

Undefined == [t |-> "undefined", s |-> <<>>]
JsString(s) == [t |-> "string", s |-> s]
JsNumber == [t |-> "number", s |-> <<>>]

\* !symbol
falsy(symbol) == symbol.t = "undefined" \/ (symbol.t = "string" /\ symbol.s = <<>>)

S_AAPL == <<"A","A","P","L">>
S_aapl == <<"a","a","p","l">>
S_BTC == <<"B","T","C">>
S_btc == <<"b","t","c">>
S_XRP == <<"X","R","P">>
S_SPY == <<"S","P","Y">>
S_GSPC == <<"^","G","S","P","C">>

cryptoSymbols ==
    { <<"B","T","C">>, <<"E","T","H">>, <<"A","D","A">>, <<"S","O","L">>, <<"M","A","T","I","C">>, <<"A","V","A","X">>, <<"D","O","T">>,
      <<"L","I","N","K">>, <<"U","N","I">>, <<"A","A","V","E">>, <<"D","O","G","E">>, <<"X","R","P">>, <<"L","T","C">>, <<"B","C","H">> }

etfSymbols ==
    { <<"S","P","Y">>, <<"Q","Q","Q">>, <<"V","T","I">>, <<"A","R","K","K">>, <<"G","L","D">>, <<"T","Q","Q","Q">>, <<"I","W","M">>,
      <<"E","F","A">>, <<"V","E","A">> }

\* variant: the lists searched for the symbol as given
detectAssetType_asGiven(symbol) ==
    IF symbol \in cryptoSymbols THEN "crypto"
    ELSE IF symbol \in etfSymbols THEN "etf"
    ELSE IF startsWith(symbol, <<"^">>) THEN "index"
    ELSE "stock"

detectAssetType(symbol) ==
    IF toUpperCase(symbol) \in cryptoSymbols THEN "crypto"
    ELSE IF toUpperCase(symbol) \in etfSymbols THEN "etf"
    ELSE IF startsWith(symbol, <<"^">>) THEN "index"
    ELSE "stock"

convertToYahooSymbol(symbol) ==
    IF detectAssetType(symbol) = "crypto"
    THEN toUpperCase(symbol) \o <<"-","U","S","D">>
    ELSE toUpperCase(symbol)

coinMap ==
    { <<<<"B","T","C">>, <<"b","i","t","c","o","i","n">>>>, <<<<"E","T","H">>, <<"e","t","h","e","r","e","u","m">>>>, <<<<"A","D","A">>, <<"c","a","r","d","a","n","o">>>>,
      <<<<"S","O","L">>, <<"s","o","l","a","n","a">>>>, <<<<"M","A","T","I","C">>, <<"m","a","t","i","c","-","n","e","t","w","o","r","k">>>>,
      <<<<"A","V","A","X">>, <<"a","v","a","l","a","n","c","h","e","-","2">>>>, <<<<"D","O","T">>, <<"p","o","l","k","a","d","o","t">>>>,
      <<<<"L","I","N","K">>, <<"c","h","a","i","n","l","i","n","k">>>>, <<<<"U","N","I">>, <<"u","n","i","s","w","a","p">>>>, <<<<"A","A","V","E">>, <<"a","a","v","e">>>>,
      <<<<"D","O","G","E">>, <<"d","o","g","e","c","o","i","n">>>>, <<<<"X","R","P">>, <<"r","i","p","p","l","e">>>>, <<<<"L","T","C">>, <<"l","i","t","e","c","o","i","n">>>>,
      <<<<"B","C","H">>, <<"b","i","t","c","o","i","n","-","c","a","s","h">>>> }

getCoinGeckoId(symbol) ==
    IF \E e \in coinMap : e[1] = toUpperCase(symbol)
    THEN (CHOOSE e \in coinMap : e[1] = toUpperCase(symbol))[2]
    ELSE toLowerCase(symbol)

----------------------------------------------------------------------------
(* Values on the wire.  A number carries where it came from: a provider's  *)
(* payload, a literal of the code, or a draw of Math.random().             *)

From(origin, v) == [o |-> origin, v |-> v]
Literal(v) == From("literal", v)
\* Math.random(): the drawn number is not modelled, only that it was drawn
MathRandom == From("Math.random", 0)

\* a JavaScript quotient n/d; d = 0 with n = 0 is NaN
Ratio(n, d) == [n |-> n, d |-> d]
isNaN(q) == q.d = 0 /\ q.n = 0

\* parseFloat(q.toFixed(digits)) with scale = 10^digits, as a quotient over
\* scale; NaN stays NaN (JSON null) and a non-zero n over 0 (Infinity) is kept
toFixed(q, scale) ==
    IF q.d = 0 THEN q
    ELSE LET a == IF q.n < 0 THEN -q.n ELSE q.n
             h == (2 * a * scale + q.d) \div (2 * q.d)
         IN  Ratio(IF q.n < 0 THEN -h ELSE h, scale)

----------------------------------------------------------------------------
(* Upstream HTTP outcomes: a 2xx answer with a payload, or a failure. *)

FailureKinds == {"timeout", "non2xx", "malformed"}

Ok(data) == [kind |-> "ok", data |-> data]
Failed(kind) == [kind |-> kind]

\* error.message of the error an adapter catches
errorMessage(adapter, r) ==
    CASE r.kind = "timeout" -> "timeout exceeded"
      [] r.kind = "non2xx" -> "Request failed with status code"
      [] adapter = "getYahooFinanceData" -> "Invalid Yahoo Finance response"
      [] adapter = "getCryptoData" -> "No crypto data available from CoinGecko"
      [] adapter = "getFMPFundamentals" -> "No FMP profile data"
      [] OTHER -> "TypeError"

Unsuccessful == [success |-> FALSE]
UnsuccessfulWith(msg) == [success |-> FALSE, error |-> msg]

getYahooFinanceData(symbol, r) ==
    IF r.kind = "ok"
    THEN LET meta == r.data
             currentPrice == IF meta.regularMarketPrice # 0 THEN meta.regularMarketPrice
                             ELSE meta.previousClose
             previousClose == IF meta.previousClose # 0 THEN meta.previousClose
                              ELSE currentPrice
             change == currentPrice - previousClose
         IN  [success |-> TRUE,
              \* meta.symbol: Yahoo answers with the symbol it was asked for
              symbol |-> convertToYahooSymbol(symbol),
              name |-> symbol,
              currentPrice |-> [defined |-> TRUE, v |-> currentPrice],
              previousClose |-> previousClose,
              change |-> Ratio(change, 1),
              changePercent |-> Ratio(change * 100, previousClose),
              volume |-> 0,
              marketCap |-> meta.marketCap]
    ELSE UnsuccessfulWith(errorMessage("getYahooFinanceData", r))

getCryptoData(symbol, r) ==
    IF r.kind = "ok"
    THEN LET data == r.data
         IN  [success |-> TRUE,
              name |-> toUpperCase(symbol),
              symbol |-> toUpperCase(symbol),
              currentPrice |-> [defined |-> data.hasUsd, v |-> data.usd],
              change |-> IF data.usd_24h_change # 0
                         THEN Ratio(data.usd * data.usd_24h_change, 100)
                         ELSE Ratio(0, 1),
              changePercent |-> Ratio(data.usd_24h_change, 1),
              marketCap |-> data.usd_market_cap,
              volume |-> data.usd_24h_vol]
    ELSE UnsuccessfulWith(errorMessage("getCryptoData", r))

getFMPFundamentals(symbol, r) ==
    IF r.kind = "ok"
    THEN LET profile == r.data
         IN  [success |-> TRUE,
              companyName |-> profile.companyName,
              sector |-> IF profile.sector # "" THEN profile.sector ELSE "Unknown",
              marketCap |-> profile.mktCap,
              peRatio |-> profile.pe,
              eps |-> profile.eps]
    ELSE UnsuccessfulWith(errorMessage("getFMPFundamentals", r))

----------------------------------------------------------------------------
(* Earnings adapters.  The payload is the number of quarters the provider  *)
(* returned; quarter i of provider p carries the values From(p, i).        *)

HistoricalQuartersCap == 4

Min(a, b) == IF a < b THEN a ELSE b

getFMPEarnings(r) ==
    IF r.kind = "ok" /\ r.data > 0
    THEN [success |-> TRUE,
          source |-> "FMP",
          latestQuarter |-> [revenue |-> From("FMP", 1), eps |-> From("FMP", 1)],
          outlook |-> "Data from FMP API",
          historicalQuarters |->
              [i \in 1..Min(r.data, HistoricalQuartersCap) |->
                  [revenue |-> From("FMP", i), eps |-> From("FMP", i)]]]
    ELSE Unsuccessful

getAlphaVantageEarnings(r) ==
    IF r.kind = "ok" /\ r.data > 0
    THEN [success |-> TRUE,
          source |-> "Alpha Vantage",
          latestQuarter |-> [revenue |-> Literal(0), eps |-> From("Alpha Vantage", 1)],
          outlook |-> "Data from Alpha Vantage",
          historicalQuarters |->
              [i \in 1..Min(r.data, HistoricalQuartersCap) |->
                  [eps |-> From("Alpha Vantage", i)]]]
    ELSE Unsuccessful

getPolygonEarnings(r) ==
    IF r.kind = "ok" /\ r.data > 0
    THEN [success |-> TRUE,
          source |-> "Polygon",
          latestQuarter |-> [revenue |-> From("Polygon", 1), eps |-> From("Polygon", 1)],
          outlook |-> "Data from Polygon API"]
    ELSE Unsuccessful

\* variant: the estimate labelled with a provider's name
generateMockEarnings_asProvider ==
    [success |-> TRUE,
     source |-> "FMP",
     latestQuarter |-> [revenue |-> MathRandom, eps |-> MathRandom],
     outlook |-> "Data from FMP API",
     historicalQuarters |->
         <<[revenue |-> MathRandom, eps |-> MathRandom],
           [revenue |-> MathRandom, eps |-> MathRandom],
           [revenue |-> MathRandom, eps |-> MathRandom],
           [revenue |-> MathRandom, eps |-> MathRandom]>>]

generateMockEarnings ==
    [success |-> TRUE,
     source |-> "Estimated",
     latestQuarter |-> [revenue |-> MathRandom, eps |-> MathRandom],
     outlook |-> "Configure API keys for real earnings data",
     historicalQuarters |->
         <<[revenue |-> MathRandom, eps |-> MathRandom],
           [revenue |-> MathRandom, eps |-> MathRandom],
           [revenue |-> MathRandom, eps |-> MathRandom],
           [revenue |-> MathRandom, eps |-> MathRandom]>>]

\* the loop over the settled results of Promise.allSettled, in array order
EarningsAdapters == <<"getFMPEarnings", "getAlphaVantageEarnings", "getPolygonEarnings">>

\* variant: the last successful provider of the array overrides the others
getQuarterlyEarnings_lastWins(settled) ==
    IF \E i \in 1..Len(EarningsAdapters) : settled[EarningsAdapters[i]].success
    THEN settled[EarningsAdapters[
             CHOOSE i \in 1..Len(EarningsAdapters) :
                 /\ settled[EarningsAdapters[i]].success
                 /\ \A j \in (i + 1)..Len(EarningsAdapters) :
                        ~settled[EarningsAdapters[j]].success]]
    ELSE generateMockEarnings

\* variant: the first successful provider to complete wins
getQuarterlyEarnings_firstSettled(settled) ==
    IF \E i \in 1..Len(order) : settled[order[i].adapter].success
    THEN settled[order[
             CHOOSE i \in 1..Len(order) :
                 /\ settled[order[i].adapter].success
                 /\ \A j \in 1..(i - 1) : ~settled[order[j].adapter].success].adapter]
    ELSE getQuarterlyEarnings_lastWins(settled)

getQuarterlyEarnings(settled) ==
    IF \E i \in 1..Len(EarningsAdapters) : settled[EarningsAdapters[i]].success
    THEN settled[EarningsAdapters[
             CHOOSE i \in 1..Len(EarningsAdapters) :
                 /\ settled[EarningsAdapters[i]].success
                 /\ \A j \in 1..(i - 1) : ~settled[EarningsAdapters[j]].success]]
    ELSE generateMockEarnings
----------------------------------------------------------------------------
(* Fundamentals *)

\* Money is in millions of dollars: x / 1000000000 is x \div Billion and
\* x / 1000000 is x itself.
Billion == 1000

\* variant: the quote preferred to the profile
generateStockFundamentals_quoteFirst(primaryData, fmpData) ==
    LET source == IF primaryData.success THEN primaryData ELSE fmpData
        origin == IF primaryData.success THEN "Yahoo" ELSE "FMP"
        orZero(f, unit) == IF f \in DOMAIN source /\ source[f] # 0
                           THEN From(origin, source[f] \div unit) ELSE Literal(0)
    IN  [type |-> "stock",
         marketCap |-> orZero("marketCap", Billion),
         peRatio |-> orZero("peRatio", 1),
         eps |-> orZero("eps", 1),
         dividendYield |-> MathRandom,
         debtToEquity |-> MathRandom,
         revenueGrowthYoY |-> MathRandom,
         revenueGrowthQoQ |-> MathRandom,
         earningsGrowthYoY |-> MathRandom,
         earningsGrowthQoQ |-> MathRandom,
         bookValue |-> MathRandom,
         roe |-> MathRandom,
         grossMargin |-> MathRandom,
         operatingMargin |-> MathRandom,
         beta |-> MathRandom]

generateStockFundamentals(primaryData, fmpData) ==
    LET source == IF fmpData.success THEN fmpData ELSE primaryData
        origin == IF fmpData.success THEN "FMP" ELSE "Yahoo"
        \* source[f] || 0, divided by unit
        orZero(f, unit) == IF f \in DOMAIN source /\ source[f] # 0
                           THEN From(origin, source[f] \div unit) ELSE Literal(0)
    IN  IF source.success
        THEN [type |-> "stock",
              marketCap |-> orZero("marketCap", Billion),
              peRatio |-> orZero("peRatio", 1),
              eps |-> orZero("eps", 1),
              dividendYield |-> MathRandom,
              debtToEquity |-> MathRandom,
              revenueGrowthYoY |-> MathRandom,
              revenueGrowthQoQ |-> MathRandom,
              earningsGrowthYoY |-> MathRandom,
              earningsGrowthQoQ |-> MathRandom,
              bookValue |-> MathRandom,
              roe |-> MathRandom,
              grossMargin |-> MathRandom,
              operatingMargin |-> MathRandom,
              beta |-> MathRandom]
        ELSE [type |-> "stock",
              marketCap |-> Literal(0), peRatio |-> Literal(0), eps |-> Literal(0),
              dividendYield |-> Literal(0), debtToEquity |-> Literal(0),
              revenueGrowthYoY |-> Literal(0), revenueGrowthQoQ |-> Literal(0),
              earningsGrowthYoY |-> Literal(0), earningsGrowthQoQ |-> Literal(0),
              bookValue |-> Literal(0), roe |-> Literal(0), grossMargin |-> Literal(0),
              operatingMargin |-> Literal(0), beta |-> Literal(0)]

\* generateCryptoFundamentals is async: the call returns a promise that is
\* still pending when the caller goes on, whatever getCryptoMetrics does later
PendingPromise == [promise |-> "pending"]

generateFundamentals(primaryData, fmpData, assetType) ==
    IF assetType = "crypto"
    THEN PendingPromise
    ELSE generateStockFundamentals(primaryData, fmpData)

\* JSON.stringify of a value of the response body: a Promise has no
\* enumerable property of its own and is written as {}
EmptyObject == [x \in {} |-> 0]

isPromise(v) == "promise" \in DOMAIN v

toJSON(v) == IF isPromise(v) THEN EmptyObject ELSE v

----------------------------------------------------------------------------
(* Crypto metrics and the crypto fundamentals the pending promise resolves *)
(* to.  Supplies are in units of 10000 coins and dominance is in tenths of  *)
(* a percent.                                                              *)

Null == From("null", 0)

getDefaultSupply(symbol) ==
    CASE symbol = <<"B","T","C">> -> [circulating |-> 1980, max |-> 2100, dominance |-> 450]
      [] symbol = <<"E","T","H">> -> [circulating |-> 12000, max |-> 0, dominance |-> 200]
      [] symbol = <<"A","D","A">> -> [circulating |-> 3500000, max |-> 4500000, dominance |-> 15]
      [] symbol = <<"S","O","L">> -> [circulating |-> 46000, max |-> 0, dominance |-> 25]
      [] OTHER -> [circulating |-> 100, max |-> 0, dominance |-> 1]

\* Promise.all of the two CoinGecko calls inside try/catch: {} as soon as
\* one of them fails, the metrics record once both have answered
getCryptoMetrics(coin, global) ==
    IF coin.kind = "ok" /\ global.kind = "ok"
    THEN [circulatingSupply |-> coin.data.circulating_supply,
          maxSupply |-> coin.data.max_supply,
          totalSupply |-> coin.data.total_supply,
          marketDominance |-> global.data,
          ath |-> coin.data.ath,
          atl |-> coin.data.atl,
          athDistance |-> coin.data.ath_change_percentage]
    ELSE EmptyObject

generateCryptoFundamentals(primaryData, cryptoMetrics) ==
    LET supply == getDefaultSupply(primaryData.symbol)
        metric(f) == IF f \in DOMAIN cryptoMetrics THEN cryptoMetrics[f] ELSE 0
        orDefault(f, d) == IF metric(f) # 0 THEN From("CoinGecko", metric(f))
                           ELSE IF d # 0 THEN From("default", d) ELSE Null
        orRandom(f) == IF metric(f) # 0 THEN From("CoinGecko", metric(f)) ELSE MathRandom
    IN  [type |-> "crypto",
         marketCap |-> From("CoinGecko", primaryData.marketCap \div Billion),
         volume24h |-> From("CoinGecko", primaryData.volume),
         circulatingSupply |-> orDefault("circulatingSupply", supply.circulating),
         maxSupply |-> orDefault("maxSupply", supply.max),
         totalSupply |-> orDefault("totalSupply", (supply.circulating * 11) \div 10),
         marketDominance |-> orDefault("marketDominance", supply.dominance),
         priceChange7d |-> MathRandom,
         priceChange30d |-> MathRandom,
         allTimeHigh |-> orRandom("ath"),
         allTimeLow |-> orRandom("atl"),
         athDistance |-> orRandom("athDistance"),
         volatility |-> MathRandom,
         liquidityScore |-> MathRandom,
         hodlerRatio |-> MathRandom,
         exchangeInflow |-> MathRandom,
         whaleActivity |-> MathRandom,
         networkHealth |-> MathRandom]

----------------------------------------------------------------------------
(* News: classification of one article *)

Space == <<" ">>

positiveWords ==
    { <<"g","a","i","n">>, <<"r","i","s","e">>, <<"u","p">>, <<"b","u","l","l","i","s","h">>, <<"b","u","y">>, <<"s","t","r","o","n","g">>, <<"g","r","o","w","t","h">>,
      <<"b","e","a","t">>, <<"e","x","c","e","e","d">>, <<"u","p","g","r","a","d","e">>, <<"p","o","s","i","t","i","v","e">>, <<"p","r","o","f","i","t">>, <<"s","u","r","g","e">>,
      <<"r","a","l","l","y">>, <<"o","p","t","i","m","i","s","t","i","c">> }

negativeWords ==
    { <<"f","a","l","l">>, <<"d","r","o","p">>, <<"d","o","w","n">>, <<"b","e","a","r","i","s","h">>, <<"s","e","l","l">>, <<"w","e","a","k">>, <<"d","e","c","l","i","n","e">>,
      <<"m","i","s","s">>, <<"d","o","w","n","g","r","a","d","e">>, <<"n","e","g","a","t","i","v","e">>, <<"l","o","s","s">>, <<"c","r","a","s","h">>, <<"p","l","u","n","g","e">>,
      <<"d","i","s","a","p","p","o","i","n","t","i","n","g">> }

analyzeTextSentiment(text) ==
    LET lowerText == toLowerCase(text)
        score == Cardinality({w \in positiveWords : includes(lowerText, w)})
                 - Cardinality({w \in negativeWords : includes(lowerText, w)})
    IN  IF score > 0 THEN "positive" ELSE IF score < 0 THEN "negative" ELSE "neutral"

\* parseFloat(score || 0) against 0.1 and -0.1; score is in hundredths
convertAVSentiment(score) ==
    IF score > 10 THEN "positive" ELSE IF score < -10 THEN "negative" ELSE "neutral"

highImpactWords ==
    { <<"e","a","r","n","i","n","g","s">>, <<"r","e","v","e","n","u","e">>, <<"c","e","o">>, <<"m","e","r","g","e","r">>, <<"a","c","q","u","i","s","i","t","i","o","n">>, <<"l","a","w","s","u","i","t">>,
      <<"f","d","a">>, <<"b","a","n","k","r","u","p","t","c","y">> }

mediumImpactWords ==
    { <<"a","n","a","l","y","s","t">>, <<"u","p","g","r","a","d","e">>, <<"d","o","w","n","g","r","a","d","e">>, <<"t","a","r","g","e","t">>, <<"f","o","r","e","c","a","s","t">>, <<"g","u","i","d","a","n","c","e">> }

getImpactLevel(headline) ==
    LET lowerHeadline == toLowerCase(headline)
    IN  IF \E w \in highImpactWords : includes(lowerHeadline, w) THEN "high"
        ELSE IF \E w \in mediumImpactWords : includes(lowerHeadline, w) THEN "medium"
        ELSE "low"

relevanceKeywords ==
    { <<"e","a","r","n","i","n","g","s">>, <<"r","e","v","e","n","u","e">>, <<"p","r","o","f","i","t">>, <<"l","o","s","s">>, <<"g","u","i","d","a","n","c","e">>, <<"o","u","t","l","o","o","k">>,
      <<"f","o","r","e","c","a","s","t">> }

relevanceHighImpactWords ==
    { <<"c","e","o">>, <<"a","c","q","u","i","s","i","t","i","o","n">>, <<"m","e","r","g","e","r">>, <<"p","a","r","t","n","e","r","s","h","i","p">>, <<"l","a","w","s","u","i","t">> }

\* variant: the symbol looked up as given, not lower-cased
calculateRelevanceScore_symbolAsGiven(headline, summary, symbol) ==
    LET text == toLowerCase(headline \o Space \o summary)
    IN  (IF includes(text, symbol) THEN 10 ELSE 0)
        + 5 * Cardinality({k \in relevanceKeywords : includes(text, k)})
        + 3 * Cardinality({w \in relevanceHighImpactWords : includes(text, w)})

calculateRelevanceScore(headline, summary, symbol) ==
    LET text == toLowerCase(headline \o Space \o summary)
        sym == toLowerCase(symbol)
    IN  (IF includes(text, sym) THEN 10 ELSE 0)
        + 5 * Cardinality({k \in relevanceKeywords : includes(text, k)})
        + 3 * Cardinality({w \in relevanceHighImpactWords : includes(text, w)})

\* variant: the corporate bucket tested before the earnings bucket
categorizeNews_corporateFirst(headline) ==
    LET text == toLowerCase(headline)
        any(ws) == \E w \in ws : includes(text, w)
    IN  IF any({ <<"m","e","r","g","e","r">>, <<"a","c","q","u","i","s","i","t","i","o","n">>, <<"p","a","r","t","n","e","r","s","h","i","p">> }) THEN "corporate"
        ELSE IF any({ <<"e","a","r","n","i","n","g","s">>, <<"r","e","v","e","n","u","e">>, <<"p","r","o","f","i","t">> }) THEN "earnings"
        ELSE IF any({ <<"a","n","a","l","y","s","t">>, <<"r","a","t","i","n","g">>, <<"t","a","r","g","e","t">> }) THEN "analyst"
        ELSE IF any({ <<"l","a","w","s","u","i","t">>, <<"r","e","g","u","l","a","t","i","o","n">>, <<"i","n","v","e","s","t","i","g","a","t","i","o","n">> }) THEN "legal"
        ELSE "general"

categorizeNews(headline) ==
    LET text == toLowerCase(headline)
        any(ws) == \E w \in ws : includes(text, w)
    IN  IF any({ <<"e","a","r","n","i","n","g","s">>, <<"r","e","v","e","n","u","e">>, <<"p","r","o","f","i","t">> }) THEN "earnings"
        ELSE IF any({ <<"a","n","a","l","y","s","t">>, <<"r","a","t","i","n","g">>, <<"t","a","r","g","e","t">> }) THEN "analyst"
        ELSE IF any({ <<"m","e","r","g","e","r">>, <<"a","c","q","u","i","s","i","t","i","o","n">>, <<"p","a","r","t","n","e","r","s","h","i","p">> }) THEN "corporate"
        ELSE IF any({ <<"l","a","w","s","u","i","t">>, <<"r","e","g","u","l","a","t","i","o","n">>, <<"i","n","v","e","s","t","i","g","a","t","i","o","n">> }) THEN "legal"
        ELSE "general"

tier1Sources ==
    { <<"r","e","u","t","e","r","s">>, <<"b","l","o","o","m","b","e","r","g">>, <<"w","a","l","l"," ","s","t","r","e","e","t"," ","j","o","u","r","n","a","l">>, <<"f","i","n","a","n","c","i","a","l"," ","t","i","m","e","s">>, <<"w","s","j">> }

tier2Sources == { <<"c","n","b","c">>, <<"m","a","r","k","e","t","w","a","t","c","h">>, <<"b","a","r","r","o","n","s">>, <<"y","a","h","o","o"," ","f","i","n","a","n","c","e">> }

getSourceTier(sourceName) ==
    LET lowerSource == toLowerCase(sourceName)
    IN  IF \E s \in tier1Sources : includes(lowerSource, s) THEN "tier1"
        ELSE IF \E s \in tier2Sources : includes(lowerSource, s) THEN "tier2"
        ELSE "tier3"

----------------------------------------------------------------------------
(* News adapters.  An upstream article is                                  *)
(*   [title, description, sourceName, time, score]                         *)
(* with time the publication instant and score the provider's sentiment    *)
(* score in hundredths.  A payload is a sequence of upstream articles.     *)

\* publishedAt as the adapter stores it: an ISO string, or Alpha Vantage's
\* time_published (YYYYMMDDTHHMMSS), which new Date() does not parse
IsoDate(t) == [format |-> "iso", t |-> t]
CompactDate(t) == [format |-> "compact", t |-> t]

NoSummary == <<"N","o"," ","s","u","m","m","a","r","y"," ","a","v","a","i","l","a","b","l","e">>

summaryOf(raw) == IF raw.description # <<>> THEN raw.description ELSE NoSummary

FinnhubSlice == 15

lexicalArticle(raw, symbol, source, tier) ==
    [headline |-> raw.title,
     summary |-> summaryOf(raw),
     source |-> source,
     publishedAt |-> IsoDate(raw.time),
     sentiment |-> analyzeTextSentiment(raw.title \o Space \o raw.description),
     impact |-> getImpactLevel(raw.title),
     relevanceScore |-> calculateRelevanceScore(raw.title, raw.description, symbol),
     category |-> categorizeNews(raw.title),
     sourceTier |-> tier]

getNewsAPIArticles(symbol, r) ==
    IF r.kind = "ok"
    THEN [i \in 1..Len(r.data) |->
             lexicalArticle(r.data[i], symbol, getSourceTier(r.data[i].sourceName),
                            getSourceTier(r.data[i].sourceName))]
    ELSE <<>>

getFinnhubNews(symbol, r) ==
    IF r.kind = "ok"
    THEN [i \in 1..Min(Len(r.data), FinnhubSlice) |->
             lexicalArticle(r.data[i], symbol, "Finnhub Financial News", "tier1")]
    ELSE <<>>

getAlphaVantageNews(symbol, r) ==
    IF r.kind = "ok"
    THEN [i \in 1..Len(r.data) |->
             [headline |-> r.data[i].title,
              summary |-> summaryOf(r.data[i]),
              source |-> "Alpha Vantage",
              publishedAt |-> CompactDate(r.data[i].time),
              sentiment |-> convertAVSentiment(r.data[i].score),
              impact |-> getImpactLevel(r.data[i].title),
              relevanceScore |->
                  calculateRelevanceScore(r.data[i].title, r.data[i].description, symbol),
              category |-> categorizeNews(r.data[i].title),
              sourceTier |-> "tier2"]]
    ELSE <<>>

getPolygonNews(symbol, r) ==
    IF r.kind = "ok"
    THEN [i \in 1..Len(r.data) |->
             lexicalArticle(r.data[i], symbol, "Polygon", "tier1")]
    ELSE <<>>

----------------------------------------------------------------------------
(* News reconciliation *)

DedupKeyLength == 50

\* variant: the whole lower-cased headline as key
dedupKey_wholeHeadline(article) == toLowerCase(article.headline)

dedupKey(article) == substring0(toLowerCase(article.headline), DedupKeyLength)

\* the filter over the articles from index i on, with the keys seen so far
RECURSIVE filterUnseen(_, _, _)
filterUnseen(articles, i, seen) ==
    IF i > Len(articles) THEN <<>>
    ELSE LET key == dedupKey(articles[i])
         IN  IF key \in seen
             THEN filterUnseen(articles, i + 1, seen)
             ELSE <<articles[i]>> \o filterUnseen(articles, i + 1, seen \cup {key})

\* variant: the last article of a key is the one kept
removeDuplicateArticles_keepLast(articles) ==
    LET kept == SelectSeq([i \in 1..Len(articles) |->
                              [article |-> articles[i],
                               last |-> \A j \in (i + 1)..Len(articles) :
                                           dedupKey(articles[j]) # dedupKey(articles[i])]],
                          LAMBDA e : e.last)
    IN  [k \in 1..Len(kept) |-> kept[k].article]

removeDuplicateArticles(articles) == filterUnseen(articles, 1, {})

tierWeight(article) ==
    CASE article.sourceTier = "tier1" -> 3
      [] article.sourceTier = "tier2" -> 2
      [] OTHER -> 1

\* new Date(b.publishedAt) - new Date(a.publishedAt); NaN when either date
\* is invalid, which Array.prototype.sort reads as 0
dateDifference(b, a) ==
    IF a.publishedAt.format = "iso" /\ b.publishedAt.format = "iso"
    THEN b.publishedAt.t - a.publishedAt.t
    ELSE 0

\* the comparator: negative when a goes before b
compareArticles(a, b) ==
    IF b.relevanceScore # a.relevanceScore THEN b.relevanceScore - a.relevanceScore
    ELSE IF tierWeight(b) # tierWeight(a) THEN tierWeight(b) - tierWeight(a)
    ELSE dateDifference(b, a)

\* stable insertion of x into a sorted list: after the last element that
\* does not go after x
insertArticle(sorted, x) ==
    LET before == {i \in 1..Len(sorted) : compareArticles(sorted[i], x) <= 0}
        k == IF before = {} THEN 0 ELSE CHOOSE i \in before : \A j \in before : j <= i
    IN  SubSeq(sorted, 1, k) \o <<x>> \o SubSeq(sorted, k + 1, Len(sorted))

\* Array.prototype.sort is stable: articles the comparator does not tell
\* apart keep their input order
RECURSIVE sortArticlesByRelevance(_)
sortArticlesByRelevance(articles) ==
    IF articles = <<>> THEN <<>>
    ELSE insertArticle(sortArticlesByRelevance(SubSeq(articles, 1, Len(articles) - 1)),
                       articles[Len(articles)])

NewsCap == 25

NewsAdapters ==
    <<"getNewsAPIArticles", "getFinnhubNews", "getAlphaVantageNews", "getPolygonNews">>

\* variant: the lists joined from the last adapter to the first
RECURSIVE concatNews_lastFirst(_, _)
concatNews_lastFirst(settled, n) ==
    IF n = 0 THEN <<>>
    ELSE settled[NewsAdapters[n]] \o concatNews_lastFirst(settled, n - 1)

RECURSIVE concatNews(_, _)
concatNews(settled, n) ==
    IF n = 0 THEN <<>>
    ELSE concatNews(settled, n - 1) \o settled[NewsAdapters[n]]

\* the catch of getComprehensiveNews
getMockNews(symbol) ==
    <<[headline |-> symbol \o <<" ","M","a","r","k","e","t"," ","A","n","a","l","y","s","i","s"," ","U","p","d","a","t","e">>,
       summary |-> <<"L","a","t","e","s","t"," ","a","n","a","l","y","s","i","s"," ","s","h","o","w","s"," ">> \o symbol \o <<" ","m","a","i","n","t","a","i","n","i","n","g"," ","s","t","e","a","d","y"," ","p","e","r","f","o","r","m","a","n","c","e">>,
       source |-> "Financial Analysis",
       publishedAt |-> IsoDate(0),
       sentiment |-> "neutral",
       impact |-> "medium"]>>

\* variant: one adapter without articles discards the others' articles
getComprehensiveNews_failFast(settled) ==
    IF \E i \in 1..Len(NewsAdapters) : settled[NewsAdapters[i]] = <<>>
    THEN getMockNews(req.symbol.s)
    ELSE removeDuplicateArticles(concatNews(settled, Len(NewsAdapters)))

\* variant: the cap applied to the deduplicated list before it is sorted
getComprehensiveNews_capFirst(settled) ==
    LET allArticles == concatNews(settled, Len(NewsAdapters))
        uniqueArticles == removeDuplicateArticles(allArticles)
    IN  sortArticlesByRelevance(
            SubSeq(uniqueArticles, 1, Min(Len(uniqueArticles), NewsCap)))

\* getComprehensiveNews once Promise.allSettled has the four results
getComprehensiveNews(settled) ==
    LET allArticles == concatNews(settled, Len(NewsAdapters))
        uniqueArticles == removeDuplicateArticles(allArticles)
        sortedArticles == sortArticlesByRelevance(uniqueArticles)
    IN  SubSeq(sortedArticles, 1, Min(Len(sortedArticles), NewsCap))

\* variant: the label thresholds taken inclusively
calculateSentimentScore_inclusiveThresholds(articles) ==
    LET count(s) == Cardinality({i \in 1..Len(articles) : articles[i].sentiment = s})
        positive == count("positive")
        negative == count("negative")
        neutral == Len(articles) - positive - negative
        total == Len(articles)
        score == IF total > 0 THEN Ratio((positive - negative) * 100, total) ELSE Ratio(0, 1)
    IN  [overall |-> IF total > 0 /\ score.n >= 20 * score.d THEN "positive"
                     ELSE IF total > 0 /\ score.n <= -20 * score.d THEN "negative"
                     ELSE "neutral",
         score |-> toFixed(score, 10),
         distribution |-> [positive |-> positive, negative |-> negative, neutral |-> neutral],
         articles |-> articles]

calculateSentimentScore(articles) ==
    LET count(s) == Cardinality({i \in 1..Len(articles) : articles[i].sentiment = s})
        positive == count("positive")
        negative == count("negative")
        neutral == Len(articles) - positive - negative
        total == Len(articles)
        score == IF total > 0 THEN Ratio((positive - negative) * 100, total) ELSE Ratio(0, 1)
    IN  [overall |-> IF score.n > 20 * score.d THEN "positive"
                     ELSE IF score.n < -20 * score.d THEN "negative" ELSE "neutral",
         score |-> toFixed(score, 10),
         distribution |-> [positive |-> positive, negative |-> negative, neutral |-> neutral],
         articles |-> articles]

----------------------------------------------------------------------------
(* Chart history.  Closes are in cents; the payload is the sequence of     *)
(* closes Yahoo returned, 0 standing for a missing close.                  *)

RECURSIVE sumCloses(_, _, _)
sumCloses(chartData, from, to) ==
    IF from > to THEN 0 ELSE chartData[from].close + sumCloses(chartData, from + 1, to)

\* parseFloat((sum / n).toFixed(2)), in cents
meanCents(sum, n) == (2 * sum + n) \div (2 * n)

Sma20Window == 20
Sma50Window == 50
Ema12Window == 12

\* index is the 0-based index of the code; absent indicators are 0 (null)
addTechnicalIndicators(chartData) ==
    [p \in 1..Len(chartData) |->
        LET index == p - 1
            item == chartData[p]
            \* chartData[index - 1].ema12: the input points carry no ema12,
            \* so the code falls back to item.close
            previousEma == item.close
        IN  [close |-> item.close,
             index |-> index,
             sma20 |-> IF index >= Sma20Window - 1
                       THEN meanCents(sumCloses(chartData, p - (Sma20Window - 1), p), Sma20Window)
                       ELSE 0,
             sma50 |-> IF index >= Sma50Window - 1
                       THEN meanCents(sumCloses(chartData, p - (Sma50Window - 1), p), Sma50Window)
                       ELSE 0,
             ema12 |-> IF index >= Ema12Window - 1
                       THEN IF index = Ema12Window - 1
                            THEN meanCents(sumCloses(chartData, 1, Ema12Window), Ema12Window)
                            ELSE meanCents(item.close * 2 + previousEma * (Ema12Window - 1),
                                           Ema12Window + 1)
                       ELSE 0]]

getDetailedChartData(r) ==
    IF r.kind = "ok"
    THEN addTechnicalIndicators(
             SelectSeq([i \in 1..Len(r.data) |-> [close |-> r.data[i]]],
                       LAMBDA item : item.close > 0))
    ELSE <<>>

----------------------------------------------------------------------------
(* The adapters of EnhancedFinancialService and their upstream calls *)

Providers == {"alphavantage", "newsApi", "finnhub", "fmp", "polygon"}

Adapters ==
    {"getYahooFinanceData", "getCryptoData", "getFMPFundamentals", "getFMPEarnings",
     "getAlphaVantageEarnings", "getPolygonEarnings", "getDetailedChartData",
     "getNewsAPIArticles", "getFinnhubNews", "getAlphaVantageNews", "getPolygonNews"}

\* the two CoinGecko requests of getCryptoMetrics
MetricsCalls == {"coins", "global"}

\* the fetches of the serverless handlers
FetchCalls == {"fetchPriceData", "fetchNewsData"}

Calls == Adapters \cup MetricsCalls \cup FetchCalls

\* the credential an adapter checks before it issues its request
keyOf(adapter) ==
    CASE adapter = "getNewsAPIArticles" -> "newsApi"
      [] adapter = "getFinnhubNews" -> "finnhub"
      [] adapter \in {"getAlphaVantageNews", "getAlphaVantageEarnings"} -> "alphavantage"
      [] adapter \in {"getPolygonNews", "getPolygonEarnings"} -> "polygon"
      [] adapter \in {"getFMPEarnings", "getFMPFundamentals"} -> "fmp"
      [] OTHER -> "none"

\* variant: every adapter taken as configured
configured_whateverTheKeys(adapter) == keyOf(adapter) = "none" \/ keyOf(adapter) \in Providers

configured(adapter) == keyOf(adapter) = "none" \/ keyOf(adapter) \in keys

isNewsAdapter(adapter) == \E i \in 1..Len(NewsAdapters) : NewsAdapters[i] = adapter

\* what an adapter returns without a request when its key is missing
unavailable(adapter) == IF isNewsAdapter(adapter) THEN <<>> ELSE Unsuccessful

\* the symbol an adapter puts in its request
sentSymbol(call, symbol) ==
    CASE call \in {"getYahooFinanceData", "getDetailedChartData"} -> convertToYahooSymbol(symbol)
      [] call \in {"getCryptoData", "coins"} -> getCoinGeckoId(symbol)
      [] call \in {"getFinnhubNews", "getAlphaVantageNews", "getPolygonNews",
                   "getAlphaVantageEarnings"} -> toUpperCase(symbol)
      [] call = "global" -> <<>>
      [] OTHER -> symbol

----------------------------------------------------------------------------
(* Bounds and the payloads upstream providers answer with *)

MaxQuarters == 5
MaxPrice == 3

YahooPayloads ==
    { [regularMarketPrice |-> MaxPrice, previousClose |-> 2, marketCap |-> 2 * Billion],
      [regularMarketPrice |-> 0, previousClose |-> 0, marketCap |-> 0] }

CoinGeckoPayloads ==
    { [hasUsd |-> TRUE, usd |-> MaxPrice, usd_24h_change |-> 2,
       usd_market_cap |-> 3 * Billion, usd_24h_vol |-> 4],
      [hasUsd |-> FALSE, usd |-> 0, usd_24h_change |-> 0,
       usd_market_cap |-> 0, usd_24h_vol |-> 0] }

ProfilePayloads ==
    { [companyName |-> <<"A","p","p","l","e"," ","I","n","c">>, sector |-> "Technology",
       mktCap |-> 3 * Billion, pe |-> 30, eps |-> 6] }

CoinPayloads ==
    { [circulating_supply |-> 7, max_supply |-> 9, total_supply |-> 8,
       ath |-> 2 * MaxPrice, atl |-> 1, ath_change_percentage |-> 50],
      [circulating_supply |-> 0, max_supply |-> 0, total_supply |-> 0,
       ath |-> 0, atl |-> 0, ath_change_percentage |-> 0] }

ChartPayloads == { <<>>, <<MaxPrice * 100, 0, 250>> }

upstream(title, description, sourceName, time, score) ==
    [title |-> title, description |-> description, sourceName |-> sourceName,
     time |-> time, score |-> score]

A_beat == upstream(<<"A","A","P","L"," ","e","a","r","n","i","n","g","s"," ","b","e","a","t">>, <<>>, <<"R","e","u","t","e","r","s">>, 5, 30)
A_beatAgain == upstream(<<"a","a","p","l"," ","E","a","r","n","i","n","g","s"," ","B","e","a","t">>, <<"p","r","o","f","i","t"," ","u","p">>, <<"C","N","B","C">>, 6, 0)
A_merger == upstream(<<"c","e","o"," ","m","e","r","g","e","r"," ","l","a","w","s","u","i","t">>, <<>>, <<"B","l","o","g">>, 4, -30)
A_fall == upstream(<<"s","h","a","r","e","s"," ","f","a","l","l">>, <<"w","e","a","k"," ","o","u","t","l","o","o","k">>, <<"M","a","r","k","e","t","W","a","t","c","h">>, 3, -20)
A_update == upstream(<<"m","a","r","k","e","t"," ","u","p","d","a","t","e">>, <<>>, <<"B","l","o","o","m","b","e","r","g">>, 2, 0)
A_rating == upstream(<<"a","n","a","l","y","s","t"," ","r","a","t","i","n","g">>, <<>>, <<"C","N","B","C">>, 1, 5)

FiveArticles == <<A_beat, A_merger, A_fall, A_update, A_rating>>

\* the article lists a news provider may answer with
AnalyzeNewsPayloads == { <<A_beat, A_fall>> }
NewsRoutePayloads == { <<>>, <<A_beatAgain, A_update>>, FiveArticles }

NewsPayloads == IF route = "news" THEN NewsRoutePayloads ELSE AnalyzeNewsPayloads

payloads(call) ==
    CASE call = "getYahooFinanceData" -> YahooPayloads
      [] call = "getCryptoData" -> CoinGeckoPayloads
      [] call = "getFMPFundamentals" -> ProfilePayloads
      [] call \in {"getFMPEarnings", "getAlphaVantageEarnings", "getPolygonEarnings"} ->
             IF route = "earnings" THEN 0..MaxQuarters ELSE {0, MaxQuarters}
      [] call = "getDetailedChartData" -> ChartPayloads
      [] call = "coins" -> CoinPayloads
      [] call = "global" -> {0, 400}
      [] OTHER -> NewsPayloads

\* every way an upstream call can end
outcomes(call) == {Ok(d) : d \in payloads(call)} \cup {Failed(k) : k \in FailureKinds}

SymbolStrings == {S_AAPL, S_aapl, S_BTC, S_btc, S_XRP}

newsAdapterResult(adapter, symbol, r) ==
    CASE adapter = "getNewsAPIArticles" -> getNewsAPIArticles(symbol, r)
      [] adapter = "getFinnhubNews" -> getFinnhubNews(symbol, r)
      [] adapter = "getAlphaVantageNews" -> getAlphaVantageNews(symbol, r)
      [] adapter = "getPolygonNews" -> getPolygonNews(symbol, r)

\* the news adapters' results for every payload, computed once
newsResults ==
    [a \in {NewsAdapters[i] : i \in 1..Len(NewsAdapters)}, s \in SymbolStrings,
     d \in AnalyzeNewsPayloads \cup NewsRoutePayloads |-> newsAdapterResult(a, s, Ok(d))]

\* the value an adapter resolves with for the upstream outcome r
adapterResult(adapter, symbol, r) ==
    CASE adapter = "getYahooFinanceData" -> getYahooFinanceData(symbol, r)
      [] adapter = "getCryptoData" -> getCryptoData(symbol, r)
      [] adapter = "getFMPFundamentals" -> getFMPFundamentals(symbol, r)
      [] adapter = "getFMPEarnings" -> getFMPEarnings(r)
      [] adapter = "getAlphaVantageEarnings" -> getAlphaVantageEarnings(r)
      [] adapter = "getPolygonEarnings" -> getPolygonEarnings(r)
      [] adapter = "getDetailedChartData" -> getDetailedChartData(r)
      [] OTHER -> IF r.kind = "ok" THEN newsResults[adapter, symbol, r.data]
                  ELSE newsAdapterResult(adapter, symbol, r)

----------------------------------------------------------------------------
(* Starting adapters and settling their calls *)

NoResults == [a \in {} |-> 0]

\* the adapters of `adapters` that issue a request
requesting(adapters) == {a \in adapters : configured(a)}

\* calling the adapters of `adapters` for `symbol`, the results `kept` being
\* those still referenced: the adapters with their key issue one request,
\* the others resolve with their unavailable value
startAdapters(kept, adapters, symbol) ==
    /\ inflight' = inflight \cup requesting(adapters)
    /\ http' = [c \in Calls |->
                   IF c \in requesting(adapters)
                   THEN Append(http[c], sentSymbol(c, symbol)) ELSE http[c]]
    /\ result' = [a \in DOMAIN kept \cup (adapters \ requesting(adapters)) |->
                     IF a \in DOMAIN kept THEN kept[a] ELSE unavailable(a)]

\* whether `order` records the settling of an adapter: under the routes that
\* await one Promise.allSettled
recordsOrder == route \in {"news", "earnings"}

\* an upstream call of an adapter ends and the adapter's promise settles
\* variant: a failed request is issued a second time before it is given up
UpstreamSettles_retrying ==
    \E a \in inflight \cap Adapters :
        \E r \in outcomes(a) :
            IF r.kind # "ok" /\ Len(http[a]) < 2
            THEN /\ http' = [http EXCEPT ![a] = Append(http[a], http[a][1])]
                 /\ UNCHANGED <<route, keys, req, pc, inflight, result, order, locals, resp>>
            ELSE /\ inflight' = inflight \ {a}
                 /\ result' = [x \in DOMAIN result \cup {a} |->
                                  IF x = a THEN adapterResult(a, req.symbol.s, r) ELSE result[x]]
                 /\ order' = IF recordsOrder THEN Append(order, [adapter |-> a, ok |-> r.kind = "ok"])
                             ELSE order
                 /\ UNCHANGED <<route, keys, req, pc, http, locals, resp>>

UpstreamSettles ==
    \E a \in inflight \cap Adapters :
        \E r \in outcomes(a) :
            /\ inflight' = inflight \ {a}
            /\ result' = [x \in DOMAIN result \cup {a} |->
                             IF x = a THEN adapterResult(a, req.symbol.s, r) ELSE result[x]]
            /\ order' = IF recordsOrder THEN Append(order, [adapter |-> a, ok |-> r.kind = "ok"])
                        ELSE order
            /\ UNCHANGED <<route, keys, req, pc, http, locals, resp>>

\* one of the two requests of getCryptoMetrics ends.  Promise.all rejects on
\* the first failure and fulfils when both have answered; the promise of
\* generateCryptoFundamentals resolves right after getCryptoMetrics returns
MetricsSettles ==
    \E c \in inflight \cap MetricsCalls :
        \E r \in outcomes(c) :
            LET raw == [x \in DOMAIN result \cup {c} |-> IF x = c THEN r ELSE result[x]]
                settles == /\ "getCryptoMetrics" \notin DOMAIN result
                           /\ (r.kind # "ok" \/ MetricsCalls \subseteq DOMAIN raw)
                metrics == IF r.kind # "ok" THEN EmptyObject
                           ELSE getCryptoMetrics(raw["coins"], raw["global"])
            IN  /\ inflight' = inflight \ {c}
                /\ result' =
                       IF settles
                       THEN [x \in DOMAIN raw \cup {"getCryptoMetrics", "generateCryptoFundamentals"} |->
                                CASE x = "getCryptoMetrics" -> metrics
                                  [] x = "generateCryptoFundamentals" ->
                                         generateCryptoFundamentals(locals["primaryData"], metrics)
                                  [] OTHER -> raw[x]]
                       ELSE raw
                /\ UNCHANGED <<route, keys, req, pc, http, order, locals, resp>>

----------------------------------------------------------------------------
(* Responses *)

\* a piece of a message: literal text, or an interpolated string value
Lit(text) == [lit |-> text, str |-> <<>>]
Interp(s) == [lit |-> "", str |-> s]

Response(status, body) == [status |-> status, body |-> body]

\* variant: a response that fails is not sent
send_unlessFailure(response) ==
    resp' = IF response.status = 500 THEN resp ELSE Append(resp, response)

send(response) == resp' = Append(resp, response)

\* the catch at the end of the /api/analyze handler
internalServerError(message) ==
    Response(500, [error |-> <<Lit("Internal server error during analysis")>>,
                   details |-> message])

\* variant: the failure of the primary quote answered as any other error
unableToFetch_generic(symbol, primaryData) ==
    internalServerError(primaryData.error)

unableToFetch(symbol, primaryData) ==
    Response(500, [error |-> <<Lit("Unable to fetch real market data for "),
                               Interp(symbol),
                               Lit(". Please check the symbol and try again.")>>,
                   details |-> primaryData.error])

----------------------------------------------------------------------------
(* POST /api/analyze *)

\* variant: the chart history fetched together with the quote
Batch1_withChart(assetType) ==
    IF assetType = "crypto" THEN {"getCryptoData", "getDetailedChartData"}
    ELSE {"getYahooFinanceData", "getFMPFundamentals", "getFMPEarnings",
          "getAlphaVantageEarnings", "getPolygonEarnings", "getDetailedChartData"}

Batch1(assetType) ==
    IF assetType = "crypto" THEN {"getCryptoData"}
    ELSE {"getYahooFinanceData", "getFMPFundamentals", "getFMPEarnings",
          "getAlphaVantageEarnings", "getPolygonEarnings"}

Batch2 ==
    {"getDetailedChartData", "getNewsAPIArticles", "getFinnhubNews",
     "getAlphaVantageNews", "getPolygonNews"}

\* the request arrives: validation, classification and the first batch
AnalyzeReceive ==
    /\ route = "analyze"
    /\ pc = "start"
    /\ IF falsy(req.symbol)
       THEN /\ send(Response(400, [error |-> <<Lit("Stock symbol is required")>>]))
            /\ pc' = "done"
            /\ UNCHANGED <<inflight, http, result, locals>>
       ELSE IF req.symbol.t # "string"
       THEN \* symbol.toUpperCase is not a function
            /\ send(internalServerError("TypeError"))
            /\ pc' = "done"
            /\ UNCHANGED <<inflight, http, result, locals>>
       ELSE /\ startAdapters(NoResults, Batch1(detectAssetType(req.symbol.s)), req.symbol.s)
            /\ locals' = [v \in {"assetType"} |-> detectAssetType(req.symbol.s)]
            /\ pc' = "batch1"
            /\ UNCHANGED resp
    /\ UNCHANGED <<route, keys, req, order>>

\* the locals assigned when the first batch has settled
afterBatch1(assetType, settled) ==
    [v \in {"assetType", "primaryData", "fmpData", "earningsData"} |->
        CASE v = "assetType" -> assetType
          [] v = "primaryData" ->
                 IF assetType = "crypto" THEN settled["getCryptoData"]
                 ELSE settled["getYahooFinanceData"]
          [] v = "fmpData" ->
                 IF assetType = "crypto" THEN Unsuccessful
                 ELSE settled["getFMPFundamentals"]
          [] v = "earningsData" ->
                 IF assetType = "crypto"
                 THEN [success |-> FALSE,
                       message |-> "Earnings not applicable for cryptocurrency"]
                 ELSE getQuarterlyEarnings(settled)]

\* the first batch has settled: the primary quote decides whether the
\* request fails or the second batch starts
AnalyzeBatch1Done ==
    /\ route = "analyze"
    /\ pc = "batch1"
    /\ Batch1(locals["assetType"]) \subseteq DOMAIN result
    /\ locals' = afterBatch1(locals["assetType"], result)
    /\ IF ~locals'["primaryData"].success
       THEN /\ send(unableToFetch(req.symbol.s, locals'["primaryData"]))
            /\ pc' = "done"
            /\ result' = NoResults
            /\ UNCHANGED <<inflight, http>>
       ELSE /\ startAdapters(NoResults, Batch2, req.symbol.s)
            /\ pc' = "batch2"
            /\ UNCHANGED resp
    /\ UNCHANGED <<route, keys, req, order>>

analysis(symbol, l, chartData, comprehensiveNews, fundamentals) ==
    Response(200,
        [symbol |-> toUpperCase(symbol),
         company |-> IF l["fmpData"].success THEN l["fmpData"].companyName
                     ELSE l["primaryData"].name,
         currentPrice |-> l["primaryData"].currentPrice.v,
         priceChange |-> toFixed(l["primaryData"].change, 100),
         priceChangePercent |-> toFixed(l["primaryData"].changePercent, 100),
         assetType |-> l["assetType"],
         sector |-> IF l["fmpData"].success THEN l["fmpData"].sector
                    ELSE IF l["assetType"] = "crypto" THEN "CRYPTOCURRENCY" ELSE "Technology",
         chartData |-> chartData,
         fundamentals |-> toJSON(fundamentals),
         sentiment |-> calculateSentimentScore(comprehensiveNews),
         earnings |-> l["earningsData"],
         dataSource |-> IF l["assetType"] = "crypto" THEN "CoinGecko + Yahoo Finance"
                        ELSE "Yahoo Finance + FMP + Multiple News Sources"])

\* the second batch has settled: sentiment, fundamentals and the response.
\* For a crypto asset generateFundamentals calls getCryptoMetrics, whose two
\* requests are issued here; the handler does not await the promise
AnalyzeBatch2Done ==
    /\ route = "analyze"
    /\ pc = "batch2"
    /\ Batch2 \subseteq DOMAIN result
    /\ LET fundamentals == generateFundamentals(locals["primaryData"], locals["fmpData"],
                                                locals["assetType"])
           metricsCalls == IF locals["assetType"] = "crypto" THEN MetricsCalls ELSE {}
       IN  /\ inflight' = inflight \cup metricsCalls
           /\ http' = [c \in Calls |->
                          IF c \in metricsCalls
                          THEN Append(http[c], sentSymbol(c, locals["primaryData"].symbol))
                          ELSE http[c]]
           /\ locals' = [v \in DOMAIN locals \cup {"fundamentals"} |->
                            IF v = "fundamentals" THEN fundamentals ELSE locals[v]]
           /\ IF ~locals["primaryData"].currentPrice.defined
              THEN \* primaryData.currentPrice.toFixed on undefined
                   send(internalServerError("TypeError"))
              ELSE send(analysis(req.symbol.s, locals, result["getDetailedChartData"],
                                 getComprehensiveNews(result), fundamentals))
    /\ pc' = "done"
    /\ result' = NoResults
    /\ UNCHANGED <<route, keys, req, order>>


----------------------------------------------------------------------------
(* GET /api/earnings/:symbol and GET /api/news/:symbol *)

EarningsAdapterSet == {EarningsAdapters[i] : i \in 1..Len(EarningsAdapters)}
NewsAdapterSet == {NewsAdapters[i] : i \in 1..Len(NewsAdapters)}

\* the route calls getQuarterlyEarnings or getComprehensiveNews, which call
\* their adapters together
FanOutReceive ==
    /\ route \in {"earnings", "news"}
    /\ pc = "start"
    /\ startAdapters(NoResults,
                     IF route = "earnings" THEN EarningsAdapterSet ELSE NewsAdapterSet,
                     req.symbol.s)
    /\ pc' = "batch1"
    /\ UNCHANGED <<route, keys, req, order, locals, resp>>

\* Promise.allSettled has every result: the earnings record is selected
EarningsDone ==
    /\ route = "earnings"
    /\ pc = "batch1"
    /\ EarningsAdapterSet \subseteq DOMAIN result
    /\ locals' = [v \in {"earningsData"} |-> getQuarterlyEarnings(result)]
    /\ send(Response(200, [symbol |-> toUpperCase(req.symbol.s),
                           earnings |-> locals'["earningsData"]]))
    /\ pc' = "done"
    /\ UNCHANGED <<route, keys, req, inflight, http, result, order>>

\* comprehensiveNews.slice(0, parseInt(limit))
limitNews(news, limit) == SubSeq(news, 1, Min(Len(news), limit))

\* Promise.allSettled has every result: the articles are reconciled
NewsDone ==
    /\ route = "news"
    /\ pc = "batch1"
    /\ NewsAdapterSet \subseteq DOMAIN result
    /\ locals' = [v \in {"comprehensiveNews"} |-> getComprehensiveNews(result)]
    /\ send(Response(200,
            [symbol |-> toUpperCase(req.symbol.s),
             totalArticles |-> Len(locals'["comprehensiveNews"]),
             returnedArticles |-> Len(limitNews(locals'["comprehensiveNews"], req.limit)),
             articles |-> limitNews(locals'["comprehensiveNews"], req.limit)]))
    /\ pc' = "done"
    /\ UNCHANGED <<route, keys, req, inflight, http, result, order>>

----------------------------------------------------------------------------
(* The serverless analyze handlers: api/analyze.js, its two other versions *)
(* (unnamed/part_001 with fetch, unnamed/part_000 with axios) and          *)
(* api/simple.js.  Prices are in cents.                                    *)

Fulfilled(value) == [status |-> "fulfilled", value |-> value]
Rejected(reason) == [status |-> "rejected", reason |-> reason]

\* the fetch of api/analyze.js: the Response object, or a rejection on a
\* network error or when the 6 s abort fires
fetchInline(r) ==
    CASE r.kind = "ok" -> Fulfilled([ok |-> TRUE, meta |-> <<r.data>>])
      [] r.kind = "malformed" -> Fulfilled([ok |-> TRUE, meta |-> <<>>])
      [] r.kind = "non2xx" -> Fulfilled([ok |-> FALSE, meta |-> <<>>])
      [] OTHER -> Rejected("Price fetch failed")

\* fetchPriceData of unnamed/part_001
fetchPriceDataFetch(r) ==
    IF r.kind = "ok"
    THEN LET meta == r.data
         IN  Fulfilled([regularMarketPrice |-> meta.regularMarketPrice,
                        changePercent |->
                            IF meta.previousClose # 0
                            THEN Ratio((meta.regularMarketPrice - meta.previousClose) * 100,
                                       meta.previousClose)
                            ELSE Ratio(0, 1),
                        trailingPE |-> meta.trailingPE,
                        marketCap |-> meta.marketCap])
    ELSE Rejected("Price fetch error")

\* fetchPriceData of unnamed/part_000
fetchPriceDataAxios(r) ==
    IF r.kind = "ok"
    THEN LET meta == r.data
         IN  Fulfilled([regularMarketPrice |-> meta.regularMarketPrice,
                        changePercent |->
                            Ratio((meta.regularMarketPrice - meta.previousClose) * 100,
                                  meta.previousClose),
                        trailingPE |-> meta.trailingPE,
                        marketCap |-> meta.marketCap])
    ELSE Rejected("Price fetch error")

\* fetchNewsData: the articles, [] on any failure
fetchNewsData(r) == Fulfilled(IF r.kind = "ok" THEN r.data ELSE <<>>)

AuxRoutes == {"api/analyze.js", "unnamed/part_001", "unnamed/part_000", "api/simple.js"}

AuxCalls(r) ==
    CASE r = "api/analyze.js" -> {"fetchPriceData"}
      [] r = "api/simple.js" -> {}
      [] OTHER -> {"fetchPriceData", "fetchNewsData"}

auxResult(call, r) ==
    CASE call = "fetchNewsData" -> fetchNewsData(r)
      [] route = "api/analyze.js" -> fetchInline(r)
      [] route = "unnamed/part_001" -> fetchPriceDataFetch(r)
      [] OTHER -> fetchPriceDataAxios(r)

AuxMetas ==
    { [regularMarketPrice |-> MaxPrice * 100, previousClose |-> 200, trailingPE |-> 25,
       marketCap |-> 2 * Billion],
      [regularMarketPrice |-> MaxPrice * 100, previousClose |-> 0, trailingPE |-> 0,
       marketCap |-> 0] }

auxOutcomes(call) ==
    {Ok(d) : d \in IF call = "fetchNewsData" THEN {<<>>, <<"headline">>} ELSE AuxMetas}
        \cup {Failed(k) : k \in FailureKinds}

\* the body of api/simple.js for a POST
simpleMock(symbol) ==
    [symbol |-> symbol,
     currentPrice |-> Literal(15025),
     priceChangePercent |-> Literal(234),
     assetType |-> "stock",
     fundamentals |-> [type |-> "stock", peRatio |-> Literal(185), marketCap |-> Literal(28)]]

\* the request arrives: method and body checks, then the fetches
AuxReceive ==
    /\ route \in AuxRoutes
    /\ pc = "start"
    /\ IF route = "api/simple.js"
       THEN /\ send(Response(200, IF req.method = "POST" THEN simpleMock(req.symbol)
                                  ELSE [message |-> "Simple backend working!"]))
            /\ pc' = "done"
            /\ UNCHANGED <<inflight, http, result>>
       ELSE IF req.method = "OPTIONS"
       THEN /\ send(Response(200, EmptyObject))
            /\ pc' = "done"
            /\ UNCHANGED <<inflight, http, result>>
       ELSE IF req.method # "POST"
       THEN /\ send(Response(405, [error |-> "Method not allowed"]))
            /\ pc' = "done"
            /\ UNCHANGED <<inflight, http, result>>
       ELSE IF falsy(req.symbol) \/ (route = "api/analyze.js" /\ req.symbol.t # "string")
       THEN /\ send(Response(400, [error |-> "Symbol required"]))
            /\ pc' = "done"
            /\ UNCHANGED <<inflight, http, result>>
       ELSE /\ startAdapters(NoResults, AuxCalls(route), req.symbol.s)
            /\ pc' = "batch1"
            /\ UNCHANGED resp
    /\ UNCHANGED <<route, keys, req, order, locals>>

\* a fetch of a serverless handler ends
AuxSettles ==
    \E c \in inflight \cap FetchCalls :
        \E r \in auxOutcomes(c) :
            /\ inflight' = inflight \ {c}
            /\ result' = [x \in DOMAIN result \cup {c} |->
                             IF x = c THEN auxResult(c, r) ELSE result[x]]
            /\ UNCHANGED <<route, keys, req, pc, http, order, locals, resp>>

\* api/analyze.js once its fetch has settled
analyzeJsResponse(symbol, settled) ==
    IF settled.status = "rejected"
    THEN Response(500, [error |-> "Analysis failed", details |-> settled.reason])
    ELSE LET yfResp == settled.value
             real == yfResp.ok /\ yfResp.meta # <<>>
             meta == yfResp.meta[1]
         IN  Response(200,
                 [symbol |-> toUpperCase(symbol),
                  currentPrice |-> IF real THEN From("Yahoo", meta.regularMarketPrice)
                                   ELSE Literal(15025),
                  previousClose |-> IF real THEN From("Yahoo", meta.previousClose)
                                    ELSE Literal(14658),
                  priceChangePercent |->
                      IF ~real THEN Ratio(250, 100)
                      ELSE IF meta.previousClose # 0 /\ meta.regularMarketPrice # 0
                      THEN Ratio((meta.regularMarketPrice - meta.previousClose) * 100,
                                 meta.previousClose)
                      ELSE Ratio(0, 0),
                  trailingPE |-> IF real THEN From("Yahoo", meta.trailingPE) ELSE Literal(254),
                  marketCap |-> IF real THEN From("Yahoo", meta.marketCap) ELSE Literal(2500000),
                  assetType |-> "stock",
                  sector |-> "Technology",
                  sentiment |-> [overall |-> "neutral", score |-> 0]])

\* unnamed/part_001 and unnamed/part_000 once Promise.allSettled has both
\* results: part_001 answers the mock labelled "mock-fallback" when there is
\* no price, part_000 throws
partResponse(r, symbol, price, news) ==
    IF symbol.t # "string"
    THEN \* symbol.toUpperCase is not a function
         Response(500, [error |-> "Unable to analyze symbol", details |-> "TypeError"])
    ELSE IF price.status = "rejected" /\ r = "unnamed/part_000"
    THEN Response(500, [error |-> "Unable to analyze symbol",
                        details |-> "Unable to fetch price data"])
    ELSE IF price.status = "rejected"
    THEN Response(200,
             [symbol |-> toUpperCase(symbol.s),
              currentPrice |-> Literal(15025),
              priceChangePercent |-> Ratio(250, 100),
              assetType |-> "stock",
              sector |-> "Technology",
              sentiment |-> [overall |-> "positive", score |-> 75],
              fundamentals |-> [type |-> "stock", peRatio |-> Literal(254),
                                marketCap |-> Literal(25005)],
              source |-> "mock-fallback"])
    ELSE LET body ==
                 [symbol |-> toUpperCase(symbol.s),
                  currentPrice |-> From("Yahoo", price.value.regularMarketPrice),
                  priceChangePercent |-> price.value.changePercent,
                  assetType |-> "stock",
                  sector |-> "Technology",
                  sentiment |-> [overall |-> "neutral", score |-> 0],
                  fundamentals |-> [type |-> "stock",
                                    peRatio |-> From("Yahoo", price.value.trailingPE),
                                    marketCap |-> From("Yahoo", price.value.marketCap \div Billion)]]
         IN  Response(200,
                 IF r = "unnamed/part_001"
                 THEN [f \in DOMAIN body \cup {"source"} |->
                          IF f = "source" THEN "yahoo-finance" ELSE body[f]]
                 ELSE body)

\* every fetch the handler awaits has settled: the response
AuxRespond ==
    /\ route \in AuxRoutes
    /\ pc = "batch1"
    /\ AuxCalls(route) \subseteq DOMAIN result
    /\ send(IF route = "api/analyze.js"
            THEN analyzeJsResponse(req.symbol.s, result["fetchPriceData"])
            ELSE partResponse(route, req.symbol, result["fetchPriceData"],
                              result["fetchNewsData"]))
    /\ pc' = "done"
    /\ UNCHANGED <<route, keys, req, inflight, http, result, order, locals>>

----------------------------------------------------------------------------
(* The requests followed and the specifications *)

\* the credentials configured: all, all but one, or none
KeyConfigs == {Providers, {}} \cup {Providers \ {p} : p \in Providers}

SymbolInputs ==
    { Undefined, JsNumber, JsString(<<>>), JsString(S_aapl), JsString(S_btc),
      JsString(S_XRP) }

\* the state of the service before a request, for the entry point r
InitRoute(r, requests) ==
    /\ route = r
    /\ keys \in KeyConfigs
    /\ req \in requests
    /\ pc = "start"
    /\ inflight = {}
    /\ http = [c \in Calls |-> <<>>]
    /\ result = NoResults
    /\ order = <<>>
    /\ locals = NoResults
    /\ resp = <<>>

Init == InitRoute("analyze", [method : {"POST"}, symbol : SymbolInputs])

Next ==
    \/ AnalyzeReceive
    \/ UpstreamSettles
    \/ AnalyzeBatch1Done
    \/ AnalyzeBatch2Done
    \/ MetricsSettles

Spec == Init /\ [][Next]_vars

\* GET /api/earnings/:symbol
InitEarnings == InitRoute("earnings", [method : {"GET"}, symbol : {JsString(S_aapl)}])

NextEarnings == FanOutReceive \/ UpstreamSettles \/ EarningsDone

SpecEarnings == InitEarnings /\ [][NextEarnings]_vars

\* GET /api/news/:symbol?limit=
InitNews ==
    InitRoute("news", [method : {"GET"}, symbol : {JsString(S_aapl)}, limit : {2, 20}])

NextNews == FanOutReceive \/ UpstreamSettles \/ NewsDone

SpecNews == InitNews /\ [][NextNews]_vars

\* the serverless handlers
InitAux ==
    \E r \in AuxRoutes :
        InitRoute(r, [method : {"OPTIONS", "GET", "POST"},
                      symbol : {Undefined, JsNumber, JsString(<<>>), JsString(S_aapl)}])

NextAux == AuxReceive \/ AuxSettles \/ AuxRespond

SpecAux == InitAux /\ [][NextAux]_vars


----------------------------------------------------------------------------
(* The functions of EnhancedFinancialService taken alone: one call of one  *)
(* function on one input.  route names the function, req is its argument   *)
(* list and locals.returned the value it returns.                          *)

MaxArticles == 3
MaxPerAdapter == 9
MaxSentiments == 5

UnitFunctions ==
    {"removeDuplicateArticles", "sortArticlesByRelevance", "getComprehensiveNews",
     "calculateRelevanceScore", "calculateSentimentScore", "detectAssetType",
     "getYahooFinanceData", "getCryptoData", "fetchPriceData",
     "generateStockFundamentals", "categorizeNews", "getImpactLevel",
     "addTechnicalIndicators"}

\* the sequences over S of length at most n
SeqUpTo(S, n) == UNION {[1..k -> S] : k \in 0..n}

\* the arguments a function is called with
UnitInputs(f) ==
    LET H50 == <<"A","p","p","l","e"," ","r","e","p","o","r","t","s"," ","r","e","c","o","r","d"," ","q","u","a","r","t","e","r","l","y"," ","e","a","r","n","i","n","g","s"," ","a","s"," ","i","p","h","o","n","e"," ">>
        headlines ==
            { H50 \o <<"s","a","l","e","s"," ","r","i","s","e">>, H50 \o <<"d","e","m","a","n","d"," ","f","a","l","l","s">>, toUpperCase(H50),
              SubSeq(H50, 1, 49) \o <<"s"," ","s","a","l","e","s"," ","r","i","s","e">>, <<"M","a","r","k","e","t","s"," ","f","a","l","l">>, <<"m","a","r","k","e","t","s"," ","F","A","L","L">> }
        dedupArticles ==
            [headline : headlines, source : {"Reuters"}]
                \cup [headline : {H50 \o <<"s","a","l","e","s"," ","r","i","s","e">>, <<"m","a","r","k","e","t","s"," ","F","A","L","L">>},
                      source : {"Polygon"}]
        \* Alpha Vantage articles are tier2 and carry time_published
        rankArticles ==
            [relevanceScore : {0, 5}, sourceTier : {"tier1", "tier2", "tier3", "unrated"},
             publishedAt : {IsoDate(1), IsoDate(2)}]
            \cup [relevanceScore : {0, 5}, sourceTier : {"tier2"},
                  publishedAt : {CompactDate(1), CompactDate(2)}]
        \* article i of the adapter with index a; the first headline is the
        \* same for every adapter and later articles score higher
        generated(a, n) ==
            [i \in 1..n |->
                [headline |-> IF i = 1 THEN <<"s","h","a","r","e","d"," ","h","e","a","d","l","i","n","e">>
                              ELSE <<LowerChars[a], LowerChars[i]>>,
                 relevanceScore |-> i,
                 sourceTier |-> IF a = 3 THEN "tier2" ELSE "tier1",
                 publishedAt |-> IF a = 3 THEN CompactDate(i) ELSE IsoDate(i)]]
        part(w, S) == IF w \in S THEN w \o Space ELSE <<>>
        topics == << <<"E","a","r","n","i","n","g","s">>, <<"a","n","a","l","y","s","t">>, <<"M","E","R","G","E","R">>, <<"l","a","w","s","u","i","t">>, <<"u","p","g","r","a","d","e">>,
                     <<"c","e","o">>, <<"s","h","a","r","e","s">> >>
        \* the topics of W in the order of the list, or in the opposite order
        mentions(W, first) ==
            LET at(k) == IF first = 1 THEN k ELSE 8 - k
                word(k) == IF at(k) \in W THEN topics[at(k)] \o Space ELSE <<>>
            IN  word(1) \o word(2) \o word(3) \o word(4) \o word(5) \o word(6) \o word(7)
        headlineWords == {<<"A","A","P","L">>, <<"E","a","r","n","i","n","g","s">>, <<"r","e","v","e","n","u","e">>, <<"C","E","O">>, <<"s","h","a","r","e","s">>}
        summaryWords == {<<"a","a","p","l">>, <<"l","o","s","s">>, <<"m","e","r","g","e","r">>, <<"g","u","i","d","a","n","c","e">>}
        caseVariants(s) ==
            {t \in [1..Len(s) -> {toLowerChar(s[i]) : i \in 1..Len(s)}
                                   \cup {toUpperChar(s[i]) : i \in 1..Len(s)}] :
                \A i \in 1..Len(s) : toLowerChar(t[i]) = toLowerChar(s[i])}
    IN  CASE f = "removeDuplicateArticles" ->
                 [articles : SeqUpTo(dedupArticles, MaxArticles)]
          [] f = "sortArticlesByRelevance" ->
                 [articles : SeqUpTo(rankArticles, 2)]
          [] f = "getComprehensiveNews" ->
                 {[settled |-> [a \in NewsAdapterSet |-> generated(
                                   CHOOSE i \in 1..Len(NewsAdapters) : NewsAdapters[i] = a,
                                   count[a])]] :
                     count \in [NewsAdapterSet -> {0, 3, MaxPerAdapter}]}
          [] f = "calculateRelevanceScore" ->
                 {[headline |-> part(<<"A","A","P","L">>, H) \o part(<<"E","a","r","n","i","n","g","s">>, H)
                                    \o part(<<"r","e","v","e","n","u","e">>, H) \o part(<<"C","E","O">>, H)
                                    \o part(<<"s","h","a","r","e","s">>, H),
                   summary |-> part(<<"a","a","p","l">>, S) \o part(<<"l","o","s","s">>, S)
                                   \o part(<<"m","e","r","g","e","r">>, S) \o part(<<"g","u","i","d","a","n","c","e">>, S),
                   symbol |-> sym] :
                     H \in SUBSET headlineWords, S \in SUBSET summaryWords,
                     sym \in {S_AAPL, S_aapl, S_btc}}
          [] f = "calculateSentimentScore" ->
                 [articles : SeqUpTo([sentiment : {"positive", "negative", "neutral"}],
                                     MaxSentiments)]
          [] f = "detectAssetType" ->
                 [symbol : UNION {caseVariants(s) : s \in {S_btc, S_aapl, S_SPY, S_GSPC,
                                                            S_XRP, <<"d","o","g","e">>, <<>>}}]
          [] f = "getYahooFinanceData" ->
                 [symbol : {S_aapl, S_SPY, S_GSPC},
                  data : [regularMarketPrice : 0..MaxPrice, previousClose : 0..MaxPrice,
                          marketCap : {2 * Billion}]]
          [] f = "getCryptoData" ->
                 [symbol : {S_btc, S_XRP},
                  data : [hasUsd : {TRUE}, usd : 1..MaxPrice, usd_24h_change : -2..2,
                          usd_market_cap : {3 * Billion}, usd_24h_vol : {4}]]
          [] f = "fetchPriceData" ->
                 [handler : {"unnamed/part_001", "unnamed/part_000"},
                  data : [regularMarketPrice : {100 * p : p \in 1..MaxPrice},
                          previousClose : {100 * p : p \in 0..MaxPrice},
                          trailingPE : {25}, marketCap : {2 * Billion}]]
          [] f \in {"categorizeNews", "getImpactLevel"} ->
                 {[headline |-> IF backwards THEN mentions(W, 7) ELSE mentions(W, 1)] :
                     W \in SUBSET (1..7), backwards \in BOOLEAN}
          [] f = "addTechnicalIndicators" ->
                 \* closes in cents: a flat run of 11 or 12 days, then up to two more days
                 {[chartData |-> [p \in 1..n |-> [close |-> flat]] \o later] :
                     flat \in {100, 200}, n \in {Ema12Window - 1, Ema12Window},
                     later \in SeqUpTo([close : {100, 300}], 2)}
          [] f = "generateStockFundamentals" ->
                 [primaryData : {getYahooFinanceData(S_aapl, r) : r \in outcomes("getYahooFinanceData")},
                  fmpData : {getFMPFundamentals(S_aapl, r) : r \in outcomes("getFMPFundamentals")}
                                \cup {Unsuccessful}]

\* the value the function returns for its arguments
applyUnit(f, input) ==
    CASE f = "removeDuplicateArticles" -> removeDuplicateArticles(input.articles)
      [] f = "sortArticlesByRelevance" -> sortArticlesByRelevance(input.articles)
      [] f = "getComprehensiveNews" -> getComprehensiveNews(input.settled)
      [] f = "calculateRelevanceScore" ->
             calculateRelevanceScore(input.headline, input.summary, input.symbol)
      [] f = "calculateSentimentScore" -> calculateSentimentScore(input.articles)
      [] f = "detectAssetType" -> detectAssetType(input.symbol)
      [] f = "getYahooFinanceData" -> getYahooFinanceData(input.symbol, Ok(input.data))
      [] f = "getCryptoData" -> getCryptoData(input.symbol, Ok(input.data))
      [] f = "fetchPriceData" ->
             IF input.handler = "unnamed/part_001" THEN fetchPriceDataFetch(Ok(input.data))
             ELSE fetchPriceDataAxios(Ok(input.data))
      [] f = "categorizeNews" -> categorizeNews(input.headline)
      [] f = "getImpactLevel" -> getImpactLevel(input.headline)
      [] f = "addTechnicalIndicators" -> addTechnicalIndicators(input.chartData)
      [] f = "generateStockFundamentals" ->
             generateStockFundamentals(input.primaryData, input.fmpData)

CallUnit ==
    /\ route \in UnitFunctions
    /\ pc = "start"
    /\ locals' = [v \in {"returned"} |-> applyUnit(route, req)]
    /\ pc' = "done"
    /\ UNCHANGED <<route, keys, req, inflight, http, result, order, resp>>

InitUnits ==
    /\ route \in UnitFunctions
    /\ req \in UnitInputs(route)
    /\ pc = "start"
    /\ keys = Providers
    /\ inflight = {}
    /\ http = [c \in Calls |-> <<>>]
    /\ result = NoResults
    /\ order = <<>>
    /\ locals = NoResults
    /\ resp = <<>>

SpecUnits == InitUnits /\ [][CallUnit]_vars

----------------------------------------------------------------------------
(* Properties of POST /api/analyze (Spec) *)

quoteAdapter == IF locals["assetType"] = "crypto" THEN "getCryptoData" ELSE "getYahooFinanceData"

\* the primary quote fetch of the request has reported failure
primaryFailed ==
    \/ "primaryData" \in DOMAIN locals /\ ~locals["primaryData"].success
    \/ /\ "assetType" \in DOMAIN locals
       /\ quoteAdapter \in DOMAIN result
       /\ ~result[quoteAdapter].success

\* C1: whenever the primary quote fetch of POST /api/analyze reports
\* failure, no 200 is sent, and the one response of the request is a 500
\* whose error text names the requested symbol and whose details are the
\* cause the quote adapter reported.
C1_PrimaryFailureIsFatal ==
    (route = "analyze" /\ primaryFailed) =>
        /\ \A i \in 1..Len(resp) : resp[i].status # 200
        /\ pc = "done" =>
              /\ Len(resp) = 1
              /\ resp[1].status = 500
              /\ \E i \in 1..Len(resp[1].body.error) :
                     resp[1].body.error[i] = Interp(req.symbol.s)
              /\ resp[1].body.details = locals["primaryData"].error
              /\ resp[1].body.details \in
                     {errorMessage(quoteAdapter, Failed(k)) : k \in FailureKinds}

C1_Witness ==
    /\ route = "analyze"
    /\ pc = "done"
    /\ "primaryData" \in DOMAIN locals
    /\ ~locals["primaryData"].success
    /\ locals["primaryData"].error = "timeout exceeded"
    /\ resp[1].status = 500

stockFields ==
    {"type", "marketCap", "peRatio", "eps", "dividendYield", "debtToEquity",
     "revenueGrowthYoY", "revenueGrowthQoQ", "earningsGrowthYoY", "earningsGrowthQoQ",
     "bookValue", "roe", "grossMargin", "operatingMargin", "beta"}

cryptoFields ==
    {"type", "marketCap", "volume24h", "circulatingSupply", "maxSupply", "totalSupply",
     "marketDominance", "priceChange7d", "priceChange30d", "allTimeHigh", "allTimeLow",
     "athDistance", "volatility", "liquidityScore",
     "hodlerRatio", "exchangeInflow", "whaleActivity", "networkHealth"}

\* C2: every 200 response of POST /api/analyze carries a fundamentals
\* object with its type tag and its variant's fields: 'crypto' when the
\* symbol classifies as crypto and 'stock' otherwise.
C2_FundamentalsTagged ==
    \A i \in 1..Len(resp) :
        (route = "analyze" /\ resp[i].status = 200) =>
            LET f == resp[i].body.fundamentals
            IN  /\ "type" \in DOMAIN f
                /\ IF detectAssetType(req.symbol.s) = "crypto"
                   THEN f.type = "crypto" /\ DOMAIN f = cryptoFields
                   ELSE f.type = "stock" /\ DOMAIN f = stockFields

\* C3: the response of POST /api/analyze is sent only when no upstream call
\* started on behalf of the request is still in flight.
C3_ResponseAfterAllCalls ==
    (route = "analyze" /\ resp # <<>>) => inflight = {}

\* C4: in POST /api/analyze no news call and no chart-history call is
\* issued unless the primary quote fetch has completed successfully.
C4_SecondBatchGated ==
    route = "analyze" =>
        \A c \in Batch2 :
            http[c] # <<>> =>
                "primaryData" \in DOMAIN locals /\ locals["primaryData"].success

C4_Witness ==
    /\ route = "analyze"
    /\ "getDetailedChartData" \in inflight
    /\ "getFinnhubNews" \in inflight
    /\ locals["primaryData"].success

\* a record of the response holds a value drawn by Math.random()
holdsRandom(record) ==
    \E f \in DOMAIN record \ {"type", "success", "source", "outlook", "historicalQuarters",
                              "latestQuarter"} :
        record[f].o = "Math.random"

\* a record of the response carries a field that marks it as synthesized
markedSynthetic(record) ==
    \/ "source" \in DOMAIN record /\ record.source \in {"Estimated", "mock-fallback"}
    \/ "sourceTier" \in DOMAIN record
    \/ "isEstimated" \in DOMAIN record

\* C9: in every 200 response of POST /api/analyze, a fundamentals record
\* or an earnings record that holds synthesized values carries an explicit
\* marker field.
C9_SyntheticIsMarked ==
    \A i \in 1..Len(resp) :
        (route = "analyze" /\ resp[i].status = 200) =>
            /\ holdsRandom(resp[i].body.fundamentals)
                   => markedSynthetic(resp[i].body.fundamentals)
            /\ ("latestQuarter" \in DOMAIN resp[i].body.earnings
                    /\ holdsRandom(resp[i].body.earnings.latestQuarter))
                   => markedSynthetic(resp[i].body.earnings)

----------------------------------------------------------------------------
(* Properties of getComprehensiveNews (SpecNews) *)

\* the articles the news adapters resolved with
suppliedArticles ==
    UNION {{result[a][i] : i \in 1..Len(result[a])} : a \in NewsAdapterSet}

\* the adapters whose upstream call failed
failedAdapters == {order[i].adapter : i \in {j \in 1..Len(order) : ~order[j].ok}}

\* C5: when some news adapters fail and the others return articles,
\* getComprehensiveNews returns articles of the successful adapters only,
\* one per deduplication key and none missing (below the cap), with a 200;
\* three failing adapters and one returning five distinct articles yield
\* exactly those five.
C5_PartialNewsSurvives ==
    (route = "news" /\ pc = "done") =>
        LET news == locals["comprehensiveNews"]
            returned == {news[i] : i \in 1..Len(news)}
            supplied == suppliedArticles
            returnedKeys == {dedupKey(x) : x \in returned}
            suppliedKeys == {dedupKey(x) : x \in supplied}
        IN  /\ Len(resp) = 1 /\ resp[1].status = 200
            /\ returned \subseteq supplied
            /\ Cardinality(returnedKeys) = Len(news)
            /\ Cardinality(suppliedKeys) <= NewsCap => suppliedKeys \subseteq returnedKeys
            /\ \A a \in NewsAdapterSet :
                   (Len(result[a]) = 5 /\ \A b \in NewsAdapterSet \ {a} : result[b] = <<>>) =>
                       returned = {result[a][i] : i \in 1..5} /\ Len(news) = 5

C5_Witness ==
    /\ route = "news"
    /\ pc = "done"
    /\ Cardinality(failedAdapters) = 3
    /\ \E a \in NewsAdapterSet \ failedAdapters : Len(result[a]) = 5
    /\ Len(locals["comprehensiveNews"]) = 5
    /\ resp[1].body.totalArticles = 5

----------------------------------------------------------------------------
(* Properties of getQuarterlyEarnings (SpecEarnings) *)

\* C6 as stated: once an earlier provider has reported success, the
\* providers later in the order are not called.
C6_LaterProvidersNotCalled ==
    route = "earnings" =>
        \A i, j \in 1..Len(EarningsAdapters) :
            (/\ i < j
             /\ EarningsAdapters[i] \in DOMAIN result
             /\ result[EarningsAdapters[i]].success)
                => http[EarningsAdapters[j]] = <<>>

\* C6 amended: every configured earnings provider is called once, together
\* with the others, whatever they report; once an earlier provider has
\* reported success, the record of a later provider is not the one returned.
C6_LaterProvidersNotUsed ==
    route = "earnings" =>
        /\ pc # "start" =>
               \A a \in EarningsAdapterSet : Len(http[a]) = IF configured(a) THEN 1 ELSE 0
        /\ pc = "done" =>
               \A i, j \in 1..Len(EarningsAdapters) :
                   (/\ i < j
                    /\ result[EarningsAdapters[i]].success
                    /\ result[EarningsAdapters[j]].success)
                       => locals["earningsData"].source # result[EarningsAdapters[j]].source

C6_Witness ==
    /\ route = "earnings"
    /\ pc = "done"
    /\ result["getFMPEarnings"].success
    /\ result["getPolygonEarnings"].success
    /\ http["getPolygonEarnings"] # <<>>
    /\ locals["earningsData"].source = "FMP"

\* C7: getQuarterlyEarnings returns, unmodified, the record of the first of
\* FMP, Alpha Vantage, Polygon that reports success, in whatever order the
\* three calls completed.
C7_FirstInPreferenceOrderWins ==
    (route = "earnings" /\ pc = "done") =>
        LET fmp == result["getFMPEarnings"]
            av == result["getAlphaVantageEarnings"]
            polygon == result["getPolygonEarnings"]
            earnings == resp[1].body.earnings
        IN  /\ fmp.success => earnings = fmp
            /\ (~fmp.success /\ av.success) => earnings = av
            /\ (~fmp.success /\ ~av.success /\ polygon.success) => earnings = polygon

C7_Witness ==
    /\ route = "earnings"
    /\ pc = "done"
    /\ Len(order) = 3
    /\ order[1].adapter = "getPolygonEarnings" /\ order[1].ok
    /\ order[3].adapter = "getAlphaVantageEarnings" /\ order[3].ok
    /\ result["getPolygonEarnings"].success
    /\ ~result["getFMPEarnings"].success
    /\ resp[1].body.earnings.source = "Alpha Vantage"

realProviderNames == {"FMP", "Alpha Vantage", "Polygon"}

\* C8: when the three earnings providers fail or are unavailable,
\* getQuarterlyEarnings returns a record with success true, source
\* "Estimated" and 4 historical quarters; a record holding synthetic values
\* never carries a real provider's source name.
C8_EstimatedFallback ==
    (route = "earnings" /\ pc = "done") =>
        LET earnings == resp[1].body.earnings
        IN  /\ (\A a \in EarningsAdapterSet : ~result[a].success) =>
                   /\ earnings.success
                   /\ earnings.source = "Estimated"
                   /\ Len(earnings.historicalQuarters) = 4
            /\ holdsRandom(earnings.latestQuarter) => earnings.source \notin realProviderNames

C8_Witness ==
    /\ route = "earnings"
    /\ pc = "done"
    /\ "fmp" \notin keys
    /\ Len(order) = 2 /\ ~order[1].ok /\ ~order[2].ok
    /\ resp[1].body.earnings.source = "Estimated"
    /\ Len(resp[1].body.earnings.historicalQuarters) = 4

----------------------------------------------------------------------------
(* Properties of the serverless handlers (SpecAux) *)

\* C10: a serverless analyze handler that answers 200 with hard-coded
\* placeholder price data after its price fetch produced no quote labels
\* the body with source "mock-fallback".
C10_MockFallbackLabelled ==
    \A i \in 1..Len(resp) :
        (/\ route \in AuxRoutes
         /\ resp[i].status = 200
         /\ http["fetchPriceData"] # <<>>
         /\ "currentPrice" \in DOMAIN resp[i].body
         /\ resp[i].body.currentPrice.o = "literal")
            => ("source" \in DOMAIN resp[i].body /\ resp[i].body.source = "mock-fallback")

----------------------------------------------------------------------------
(* Properties of the news reconciliation functions (SpecUnits) *)

\* the first 50 characters of the lower-cased headline
headlineKey(article) ==
    LET lower == [i \in 1..Len(article.headline) |-> toLowerChar(article.headline[i])]
    IN  IF Len(lower) <= 50 THEN lower ELSE SubSeq(lower, 1, 50)

\* the indices of the articles that are the first of their key
firstOfKey(articles) ==
    LET key == [i \in 1..Len(articles) |-> headlineKey(articles[i])]
    IN  {i \in 1..Len(articles) : \A j \in 1..(i - 1) : key[j] # key[i]}

\* C11: removeDuplicateArticles returns, in input order, exactly the
\* articles that are the first of their key (the first 50 characters of the
\* lower-cased headline), whatever provider the later ones come from; the
\* keys of the output are pairwise distinct.
C11_FirstOccurrenceWins ==
    (route = "removeDuplicateArticles" /\ pc = "done") =>
        LET in == req.articles
            out == locals["returned"]
            firsts == firstOfKey(in)
        IN  /\ Len(out) = Cardinality(firsts)
            /\ \A k \in 1..Len(out) :
                   out[k] = in[CHOOSE i \in firsts : Cardinality({j \in firsts : j <= i}) = k]
            /\ \A k, l \in 1..Len(out) : k # l => headlineKey(out[k]) # headlineKey(out[l])

C11_Witness ==
    /\ route = "removeDuplicateArticles"
    /\ pc = "done"
    /\ Len(req.articles) = 3
    /\ headlineKey(req.articles[1]) = headlineKey(req.articles[3])
    /\ req.articles[1].headline # req.articles[3].headline
    /\ req.articles[1].source # req.articles[3].source
    /\ headlineKey(req.articles[2]) # headlineKey(req.articles[1])
    /\ locals["returned"] = <<req.articles[1], req.articles[2]>>

\* headlines that agree on their first 50 characters and differ after them
differAfter50(a, b) ==
    /\ Len(a.headline) > 50
    /\ Len(b.headline) > 50
    /\ SubSeq(a.headline, 1, 50) = SubSeq(b.headline, 1, 50)
    /\ a.headline # b.headline

\* C12 as stated: two articles whose headlines agree on the first 50
\* characters and differ only after character 50 both remain in the output
\* of removeDuplicateArticles.
C12_LongHeadlinesBothKept ==
    (route = "removeDuplicateArticles" /\ pc = "done") =>
        \A i, j \in 1..Len(req.articles) :
            differAfter50(req.articles[i], req.articles[j]) =>
                /\ \E k \in 1..Len(locals["returned"]) :
                       locals["returned"][k].headline = req.articles[i].headline
                /\ \E k \in 1..Len(locals["returned"]) :
                       locals["returned"][k].headline = req.articles[j].headline

\* C12 amended: two articles whose headlines agree on the first 50
\* characters and differ only after character 50 collapse to one, the first
\* article of the input with that prefix; two articles whose lower-cased
\* headlines differ within the first 50 characters are both represented.
C12_LongHeadlinesCollapse ==
    (route = "removeDuplicateArticles" /\ pc = "done") =>
        LET in == req.articles
            out == locals["returned"]
            inKey == [i \in 1..Len(in) |-> headlineKey(in[i])]
            outKey == [k \in 1..Len(out) |-> headlineKey(out[k])]
            firsts == firstOfKey(in)
        IN  \A i, j \in 1..Len(in) :
                /\ differAfter50(in[i], in[j]) =>
                       /\ Cardinality({k \in 1..Len(out) : outKey[k] = inKey[i]}) = 1
                       /\ \A k \in 1..Len(out) :
                              outKey[k] = inKey[i] => \E f \in firsts : out[k] = in[f]
                /\ inKey[i] # inKey[j] =>
                       /\ \E k \in 1..Len(out) : outKey[k] = inKey[i]
                       /\ \E k \in 1..Len(out) : outKey[k] = inKey[j]

C12_Witness ==
    /\ route = "removeDuplicateArticles"
    /\ pc = "done"
    /\ Len(req.articles) = 2
    /\ differAfter50(req.articles[1], req.articles[2])
    /\ locals["returned"] = <<req.articles[1]>>

\* the tier weight the ranking rule gives an article
rankWeight(article) ==
    IF article.sourceTier = "tier1" THEN 3 ELSE IF article.sourceTier = "tier2" THEN 2 ELSE 1

\* a goes before b by the ranking rule: higher score, then higher tier
\* weight, then more recent publication
mustPrecede(a, b) ==
    \/ a.relevanceScore > b.relevanceScore
    \/ /\ a.relevanceScore = b.relevanceScore
       /\ rankWeight(a) > rankWeight(b)
    \/ /\ a.relevanceScore = b.relevanceScore
       /\ rankWeight(a) = rankWeight(b)
       /\ a.publishedAt.t > b.publishedAt.t

\* C13: in the list returned by sortArticlesByRelevance no article stands
\* behind one it must precede by the ranking rule (score, then tier weight,
\* then recency of publishedAt).
C13_RankedByScoreTierRecency ==
    (route = "sortArticlesByRelevance" /\ pc = "done") =>
        \A i, j \in 1..Len(locals["returned"]) :
            i < j => ~mustPrecede(locals["returned"][j], locals["returned"][i])

\* the word w occurs in text, letter case aside
occursIn(w, text) ==
    \E i \in 0..(Len(text) - Len(w)) :
        \A k \in 1..Len(w) : toLowerChar(text[i + k]) = toLowerChar(w[k])

financialKeywords ==
    {<<"e","a","r","n","i","n","g","s">>, <<"r","e","v","e","n","u","e">>, <<"p","r","o","f","i","t">>, <<"l","o","s","s">>, <<"g","u","i","d","a","n","c","e">>, <<"o","u","t","l","o","o","k">>,
     <<"f","o","r","e","c","a","s","t">>}

highImpactTerms ==
    {<<"c","e","o">>, <<"a","c","q","u","i","s","i","t","i","o","n">>, <<"m","e","r","g","e","r">>, <<"p","a","r","t","n","e","r","s","h","i","p">>, <<"l","a","w","s","u","i","t">>}

\* C14: calculateRelevanceScore returns 10 if the symbol occurs, letter
\* case aside, in headline and summary, plus 5 for each of the seven
\* financial keywords that occurs, plus 3 for each of the five high-impact
\* terms that occurs; the symbol with exactly two keywords and one
\* high-impact term scores 23.
C14_RelevanceScore ==
    (route = "calculateRelevanceScore" /\ pc = "done") =>
        LET text == req.headline \o <<" ">> \o req.summary
            symbolPoints == IF occursIn(req.symbol, text) THEN 10 ELSE 0
            keywords == Cardinality({w \in financialKeywords : occursIn(w, text)})
            terms == Cardinality({w \in highImpactTerms : occursIn(w, text)})
        IN  /\ locals["returned"] = symbolPoints + 5 * keywords + 3 * terms
            /\ (symbolPoints = 10 /\ keywords = 2 /\ terms = 1) => locals["returned"] = 23

C14_Witness ==
    /\ route = "calculateRelevanceScore"
    /\ pc = "done"
    /\ req.symbol = S_AAPL
    /\ req.summary = <<>>
    /\ occursIn(S_AAPL, req.headline)
    /\ Cardinality({w \in financialKeywords : occursIn(w, req.headline)}) = 2
    /\ Cardinality({w \in highImpactTerms : occursIn(w, req.headline)}) = 1
    /\ locals["returned"] = 23

\* the articles of the four adapters in the order of the adapters
harvestedArticles ==
    req.settled["getNewsAPIArticles"] \o req.settled["getFinnhubNews"]
        \o req.settled["getAlphaVantageNews"] \o req.settled["getPolygonNews"]

\* a ranks above b by relevance score, then by tier weight
outranks(a, b) ==
    \/ a.relevanceScore > b.relevanceScore
    \/ /\ a.relevanceScore = b.relevanceScore
       /\ rankWeight(a) > rankWeight(b)

\* C15: getComprehensiveNews returns at most 25 articles; they are the
\* first 25 of the deduplicated list after sorting: as many as there are
\* distinct headline keys up to 25, one article per key, the head of the
\* sorted list of first occurrences, and no article that was left out
\* outranks a returned one.
C15_CapAppliedLast ==
    (route = "getComprehensiveNews" /\ pc = "done") =>
        LET returned == locals["returned"]
            supplied == harvestedArticles
            unique == {supplied[i] : i \in firstOfKey(supplied)}
            suppliedKeys == {headlineKey(supplied[i]) : i \in 1..Len(supplied)}
            returnedSet == {returned[i] : i \in 1..Len(returned)}
            leftOut == unique \ returnedSet
        IN  /\ Len(returned) <= 25
            /\ Len(returned) = Min(25, Cardinality(suppliedKeys))
            /\ returnedSet \subseteq unique
            /\ Cardinality({headlineKey(a) : a \in returnedSet}) = Len(returned)
            /\ \A u \in leftOut, r \in returnedSet : ~outranks(u, r)
            /\ LET numbered == [i \in 1..Len(supplied) |-> [index |-> i, article |-> supplied[i]]]
                   firsts == SelectSeq(numbered, LAMBDA e : e.index \in firstOfKey(supplied))
                   sorted == sortArticlesByRelevance([k \in 1..Len(firsts) |-> firsts[k].article])
               IN  returned = SubSeq(sorted, 1, Len(returned))

C15_Witness ==
    /\ route = "getComprehensiveNews"
    /\ pc = "done"
    /\ Len(harvestedArticles) > Cardinality(firstOfKey(harvestedArticles))
    /\ Cardinality(firstOfKey(harvestedArticles)) > 25
    /\ Len(locals["returned"]) = 25

\* the number of articles of the request with the given sentiment
articlesWith(sentiment) ==
    Cardinality({i \in 1..Len(req.articles) : req.articles[i].sentiment = sentiment})

\* C16 as stated: the reported score equals (positive - negative) / total
\* x 100 whenever there is an article.
C16_ScoreIsExactQuotient ==
    (route = "calculateSentimentScore" /\ pc = "done" /\ Len(req.articles) > 0) =>
        LET reported == locals["returned"].score
        IN  reported.n * Len(req.articles)
                = (articlesWith("positive") - articlesWith("negative")) * 100 * reported.d

\* C16: calculateSentimentScore reports counts that add up to the number of
\* articles, a score that is (positive - negative) / total x 100 rounded to
\* one decimal and lies within [-100, 100], and the label positive iff
\* that quotient is above 20, negative iff it is below -20, neutral
\* otherwise; an empty list yields score 0 and label neutral.
C16_SentimentSummary ==
    (route = "calculateSentimentScore" /\ pc = "done") =>
        LET returned == locals["returned"]
            total == Len(req.articles)
            net == articlesWith("positive") - articlesWith("negative")
            tenths == returned.score.n
            distance == 1000 * net - tenths * total
        IN  /\ returned.distribution.positive = articlesWith("positive")
            /\ returned.distribution.negative = articlesWith("negative")
            /\ returned.distribution.neutral = articlesWith("neutral")
            /\ returned.distribution.positive + returned.distribution.negative
                   + returned.distribution.neutral = total
            /\ returned.score.d = 10
            /\ 2 * (IF distance < 0 THEN -distance ELSE distance) <= total
            /\ tenths >= -1000 /\ tenths <= 1000
            /\ returned.overall \in {"positive", "negative", "neutral"}
            /\ returned.overall = "positive" <=> 100 * net > 20 * total
            /\ returned.overall = "negative" <=> 100 * net < -20 * total
            /\ returned.overall = "positive" <=> tenths > 200
            /\ returned.overall = "negative" <=> tenths < -200
            /\ total = 0 => tenths = 0 /\ returned.overall = "neutral"

C16_Witness ==
    /\ route = "calculateSentimentScore"
    /\ pc = "done"
    /\ Len(req.articles) = 3
    /\ articlesWith("positive") = 2
    /\ articlesWith("negative") = 1
    /\ locals["returned"].score = Ratio(333, 10)
    /\ locals["returned"].overall = "positive"

\* a and b differ in letter case only
sameLetters(a, b) ==
    /\ Len(a) = Len(b)
    /\ \A i \in 1..Len(a) : toLowerChar(a[i]) = toLowerChar(b[i])

\* the strings that differ from s in letter case only
RECURSIVE letterCaseVariants(_)
letterCaseVariants(s) ==
    IF s = <<>> THEN {<<>>}
    ELSE {<<c>> \o t : c \in {toLowerChar(s[1]), toUpperChar(s[1])},
                       t \in letterCaseVariants(Tail(s))}

\* C17: detectAssetType returns one of stock, crypto, etf, index for every
\* symbol, the same tag for every symbol that differs from it in letter case
\* only, and stock for a symbol that is in neither list, letter case aside,
\* and does not begin with '^'.
C17_AssetTypeTotalAndCaseBlind ==
    (route = "detectAssetType" /\ pc = "done") =>
        LET returned == locals["returned"]
            listed == \E s \in cryptoSymbols \cup etfSymbols : sameLetters(s, req.symbol)
        IN  /\ returned \in {"stock", "crypto", "etf", "index"}
            /\ \A other \in letterCaseVariants(req.symbol) :
                   detectAssetType(other) = returned
            /\ (~listed /\ (req.symbol = <<>> \/ req.symbol[1] # "^")) => returned = "stock"

C17_Witness ==
    /\ route = "detectAssetType"
    /\ pc = "done"
    /\ req.symbol = <<"b", "T", "c">>
    /\ locals["returned"] = "crypto"

\* the previous close of a quote record: the field when the record has it,
\* otherwise the price less the change, as a quotient
previousCloseOf(quote) ==
    IF "previousClose" \in DOMAIN quote THEN Ratio(quote.previousClose, 1)
    ELSE Ratio(quote.currentPrice.v * quote.change.d - quote.change.n, quote.change.d)

\* C18: every successful quote record of getYahooFinanceData and of
\* getCryptoData satisfies change = currentPrice - previousClose and, for a
\* previous close other than zero, changePercent = change / previousClose x 100.
C18_ChangeAgreesWithPercent ==
    (route \in {"getYahooFinanceData", "getCryptoData"} /\ pc = "done"
        /\ locals["returned"].success) =>
        LET quote == locals["returned"]
            previous == previousCloseOf(quote)
        IN  /\ quote.change.n * previous.d
                   = (quote.currentPrice.v * previous.d - previous.n) * quote.change.d
            /\ previous.n # 0 =>
                   quote.changePercent.n * previous.n * quote.change.d
                       = quote.change.n * 100 * previous.d * quote.changePercent.d

\* the percent change of the value a quote function returned
reportedChangePercent ==
    LET returned == locals["returned"]
        quote == IF route = "fetchPriceData" THEN returned.value ELSE returned
    IN  IF "changePercent" \in DOMAIN quote THEN quote.changePercent ELSE Null

\* C19: when the upstream quote has previousClose zero or absent, the
\* percent change of the quote is missing (absent or null): neither the
\* result of a division by zero nor an ordinary number.
C19_NoPreviousCloseNoPercent ==
    (route \in {"getYahooFinanceData", "fetchPriceData"} /\ pc = "done"
        /\ req.data.previousClose = 0) =>
        reportedChangePercent = Null

\* the adapters that need a credential, each with its provider
keyedAdapters ==
    { <<"getNewsAPIArticles", "newsApi">>, <<"getFinnhubNews", "finnhub">>,
      <<"getAlphaVantageNews", "alphavantage">>, <<"getPolygonNews", "polygon">>,
      <<"getFMPEarnings", "fmp">>, <<"getAlphaVantageEarnings", "alphavantage">>,
      <<"getPolygonEarnings", "polygon">>, <<"getFMPFundamentals", "fmp">> }

\* C20: an adapter whose provider has no key issues no HTTP request and
\* settles with its unavailable value (the empty list for news, success
\* false for earnings and profile); the request is answered with 200
\* whenever its quote is good, whatever keys are missing; and without any
\* key the news of the response is the empty list.
C20_MissingKeyIsUnavailable ==
    route = "analyze" =>
        /\ \A pair \in keyedAdapters :
               pair[2] \notin keys =>
                   /\ http[pair[1]] = <<>>
                   /\ pair[1] \notin inflight
                   /\ pair[1] \in DOMAIN result =>
                          result[pair[1]] = IF pair[1] \in {"getNewsAPIArticles", "getFinnhubNews",
                                                           "getAlphaVantageNews", "getPolygonNews"}
                                            THEN <<>>
                                            ELSE [success |-> FALSE]
        /\ (pc = "done" /\ "primaryData" \in DOMAIN locals /\ locals["primaryData"].success
               /\ locals["primaryData"].currentPrice.defined) =>
               Len(resp) = 1 /\ resp[1].status = 200
        /\ \A i \in 1..Len(resp) :
               (keys = {} /\ resp[i].status = 200) => resp[i].body.sentiment.articles = <<>>

C20_Witness ==
    /\ route = "analyze"
    /\ pc = "done"
    /\ keys = {}
    /\ Len(resp) = 1
    /\ resp[1].status = 200
    /\ resp[1].body.sentiment.articles = <<>>
    /\ resp[1].body.sentiment.overall = "neutral"
    /\ \A pair \in keyedAdapters : http[pair[1]] = <<>>
    /\ http["getYahooFinanceData"] # <<>>

----------------------------------------------------------------------------
(* Properties of the adapters and of the handling of their failures *)

\* the calls that address CoinGecko by coin id, or by no symbol at all
coinIdCalls == {"getCryptoData", "coins", "global"}

\* C21: every upstream call of POST /api/analyze other than the CoinGecko
\* calls carries the symbol in upper case, whatever the case of the symbol
\* in the request.
C21_SymbolSentUpperCased ==
    route = "analyze" =>
        \A c \in Calls \ coinIdCalls :
            \A i \in 1..Len(http[c]) :
                \A k \in 1..Len(http[c][i]) : http[c][i][k] = toUpperChar(http[c][i][k])

\* the static supply table: circulating and maximum supply in units of
\* 10000 coins (0 for none), dominance in tenths of a percent
staticSupply(symbol) ==
    CASE symbol = <<"B","T","C">> -> <<1980, 2100, 450>>
      [] symbol = <<"E","T","H">> -> <<12000, 0, 200>>
      [] symbol = <<"A","D","A">> -> <<3500000, 4500000, 15>>
      [] symbol = <<"S","O","L">> -> <<46000, 0, 25>>
      [] OTHER -> <<100, 0, 1>>

\* C22: once the crypto metrics lookup of POST /api/analyze has failed for
\* a quote that carries a price, the request is answered with a 200 whose fundamentals are crypto
\* fundamentals with circulating supply, maximum supply and dominance of
\* the static table (the generic default for a symbol outside it).
C22_MetricsFailureDegrades ==
    (route = "analyze" /\ "getCryptoMetrics" \in DOMAIN result
        /\ result["getCryptoMetrics"] = EmptyObject
        /\ locals["primaryData"].currentPrice.defined) =>
        /\ Len(resp) = 1
        /\ resp[1].status = 200
        /\ LET f == resp[1].body.fundamentals
               static == staticSupply(toUpperCase(req.symbol.s))
           IN  /\ {"type", "circulatingSupply", "maxSupply", "marketDominance"} \subseteq DOMAIN f
               /\ f.type = "crypto"
               /\ f.circulatingSupply.v = static[1]
               /\ f.maxSupply.v = static[2]
               /\ f.marketDominance.v = static[3]

\* C23: an adapter of POST /api/analyze never hands the handler a payload
\* it could not read: a quote that reports success carries a price, and
\* for a symbol that is a string the only 500 of the request is the one
\* that reports the failure of the quote, never one for an exception in the
\* handler.
C23_FailuresBecomeUnavailable ==
    (route = "analyze" /\ req.symbol.t = "string") =>
        /\ \A a \in {"getYahooFinanceData", "getCryptoData"} \cap DOMAIN result :
               result[a].success => result[a].currentPrice.defined
        /\ \A i \in 1..Len(resp) :
               resp[i].status = 500 =>
                   /\ "primaryData" \in DOMAIN locals
                   /\ ~locals["primaryData"].success
                   /\ resp[i].body.details = locals["primaryData"].error

\* the price fetch of api/analyze.js has ended without a quote: the fetch
\* was aborted or failed, the answer was not 2xx, or it held no quote
priceFetchFailed ==
    /\ "fetchPriceData" \in DOMAIN result
    /\ LET settled == result["fetchPriceData"]
       IN  \/ settled.status = "rejected"
           \/ ~settled.value.ok
           \/ settled.value.meta = <<>>

\* C24: in api/analyze.js every failure of the price fetch leads to the
\* outcome a timed-out fetch leads to, the 500 'Analysis failed': the
\* status of the response does not depend on the kind of failure.
C24_TimeoutLikeAnyFailure ==
    (route = "api/analyze.js" /\ pc = "done" /\ priceFetchFailed) =>
        /\ Len(resp) = 1
        /\ resp[1].status = 500
        /\ resp[1].body.error = "Analysis failed"

----------------------------------------------------------------------------
(* Properties of the fundamentals, classification and indicator functions *)

\* the field of a record, 0 when the record has no such field
fieldOrZero(record, field) == IF field \in DOMAIN record THEN record[field] ELSE 0

\* C25: generateStockFundamentals takes marketCap (in billions), peRatio
\* and eps from the profile result when that succeeded, otherwise from the
\* quote when that succeeded (0 for a field the source has not), and
\* otherwise returns a record whose every metric is zero; the type tag is
\* 'stock' in all three cases.
C25_ProfileThenQuoteThenZero ==
    (route = "generateStockFundamentals" /\ pc = "done") =>
        LET f == locals["returned"]
            fmp == req.fmpData
            quote == req.primaryData
            from(source) ==
                /\ f.marketCap.v * 1000 = fieldOrZero(source, "marketCap")
                /\ f.peRatio.v = fieldOrZero(source, "peRatio")
                /\ f.eps.v = fieldOrZero(source, "eps")
        IN  /\ f.type = "stock"
            /\ fmp.success => from(fmp) /\ f.peRatio.o = "FMP"
            /\ (~fmp.success /\ quote.success) =>
                   from(quote) /\ f.marketCap.o \in {"Yahoo", "literal"}
            /\ (~fmp.success /\ ~quote.success) =>
                   \A m \in DOMAIN f \ {"type"} : f[m] = [o |-> "literal", v |-> 0]

C25_Witness ==
    /\ route = "generateStockFundamentals"
    /\ pc = "done"
    /\ ~req.fmpData.success
    /\ req.primaryData.success
    /\ req.primaryData.marketCap = 2000
    /\ locals["returned"].marketCap = [o |-> "Yahoo", v |-> 2]
    /\ locals["returned"].eps.v = 0

\* the buckets of categorizeNews and the levels of getImpactLevel, each
\* with its words, in the order of the claim
categoryBuckets ==
    << [label |-> "earnings", words |-> {<<"e","a","r","n","i","n","g","s">>, <<"r","e","v","e","n","u","e">>, <<"p","r","o","f","i","t">>}],
       [label |-> "analyst", words |-> {<<"a","n","a","l","y","s","t">>, <<"r","a","t","i","n","g">>, <<"t","a","r","g","e","t">>}],
       [label |-> "corporate", words |-> {<<"m","e","r","g","e","r">>, <<"a","c","q","u","i","s","i","t","i","o","n">>, <<"p","a","r","t","n","e","r","s","h","i","p">>}],
       [label |-> "legal", words |-> {<<"l","a","w","s","u","i","t">>, <<"r","e","g","u","l","a","t","i","o","n">>, <<"i","n","v","e","s","t","i","g","a","t","i","o","n">>}] >>

impactLevels ==
    << [label |-> "high", words |-> {<<"e","a","r","n","i","n","g","s">>, <<"r","e","v","e","n","u","e">>, <<"c","e","o">>, <<"m","e","r","g","e","r">>,
                                     <<"a","c","q","u","i","s","i","t","i","o","n">>, <<"l","a","w","s","u","i","t">>, <<"f","d","a">>, <<"b","a","n","k","r","u","p","t","c","y">>}],
       [label |-> "medium", words |-> {<<"a","n","a","l","y","s","t">>, <<"u","p","g","r","a","d","e">>, <<"d","o","w","n","g","r","a","d","e">>, <<"t","a","r","g","e","t">>,
                                       <<"f","o","r","e","c","a","s","t">>, <<"g","u","i","d","a","n","c","e">>}] >>

\* the label of the first bucket one of whose words occurs in the headline
firstMatch(buckets, headline, otherwise) ==
    LET matching == {i \in 1..Len(buckets) :
                        \E w \in buckets[i].words : occursIn(w, headline)}
    IN  IF matching = {} THEN otherwise
        ELSE buckets[CHOOSE i \in matching : \A j \in matching : i <= j].label

\* C26: categorizeNews returns the first matching bucket in the order
\* earnings, analyst, corporate, legal, else general, and getImpactLevel
\* the first matching level in the order high, medium, else low, whatever
\* the order of the words in the headline; each returns one label.
C26_FirstMatchingBucket ==
    /\ (route = "categorizeNews" /\ pc = "done") =>
           /\ locals["returned"] = firstMatch(categoryBuckets, req.headline, "general")
           /\ locals["returned"] \in {"earnings", "analyst", "corporate", "legal", "general"}
    /\ (route = "getImpactLevel" /\ pc = "done") =>
           /\ locals["returned"] = firstMatch(impactLevels, req.headline, "low")
           /\ locals["returned"] \in {"high", "medium", "low"}

C26_Witness ==
    /\ route = "categorizeNews"
    /\ pc = "done"
    /\ req.headline = <<"l","a","w","s","u","i","t"," ","M","E","R","G","E","R"," ","E","a","r","n","i","n","g","s"," ">>
    /\ locals["returned"] = "earnings"

----------------------------------------------------------------------------
(* Properties of the calls of one request *)

\* C27: within one request of POST /api/analyze every upstream call is
\* issued at most once: a request that has been sent is never sent again,
\* whether it or any other call failed.
C27_NoRetry ==
    route = "analyze" => \A c \in Calls : Len(http[c]) <= 1

C27_Witness ==
    /\ route = "analyze"
    /\ pc = "done"
    /\ inflight = {}
    /\ keys = Providers
    /\ Len(resp) = 1
    /\ resp[1].status = 200
    /\ locals["assetType"] = "stock"
    /\ "error" \in DOMAIN locals["fmpData"]
    /\ locals["fmpData"].error = "timeout exceeded"
    /\ \A c \in Batch1("stock") \cup Batch2 : Len(http[c]) = 1

\* what the four news adapters returned, joined in the order NewsAPI,
\* Finnhub, Alpha Vantage, Polygon
joinedInFixedOrder ==
    result["getNewsAPIArticles"] \o result["getFinnhubNews"]
        \o result["getAlphaVantageNews"] \o result["getPolygonNews"]

\* the key of every article a news adapter can return for a payload
keyOfArticle ==
    [x \in UNION {{newsResults[t][i] : i \in 1..Len(newsResults[t])} : t \in DOMAIN newsResults}
        |-> headlineKey(x)]

\* C28: the list returned by getComprehensiveNews is determined by what
\* the four adapters returned, whatever the order in which their calls
\* completed: it is the head of the sorted list of the first occurrences
\* in the join in the order NewsAPI, Finnhub, Alpha Vantage, Polygon, so
\* the survivor among duplicates is that of the earliest provider.
C28_CompletionOrderIrrelevant ==
    (route = "news" /\ pc = "done") =>
        LET news == locals["comprehensiveNews"]
            joined == joinedInFixedOrder
            key == [i \in 1..Len(joined) |-> keyOfArticle[joined[i]]]
            firsts == {i \in 1..Len(joined) : \A j \in 1..(i - 1) : key[j] # key[i]}
            numbered == [i \in 1..Len(joined) |-> [index |-> i, article |-> joined[i]]]
            kept == SelectSeq(numbered, LAMBDA e : e.index \in firsts)
            sorted == sortArticlesByRelevance([k \in 1..Len(kept) |-> kept[k].article])
        IN  /\ {news[k] : k \in 1..Len(news)} \subseteq {joined[f] : f \in firsts}
            /\ news = SubSeq(sorted, 1, Min(25, Len(sorted)))

C28_Witness ==
    /\ route = "news"
    /\ pc = "done"
    /\ Len(order) = 4
    /\ order[1].adapter = "getPolygonNews"
    /\ order[4].adapter = "getNewsAPIArticles"
    /\ result["getPolygonNews"] # <<>>
    /\ result["getNewsAPIArticles"] # <<>>
    /\ headlineKey(result["getPolygonNews"][1]) = headlineKey(result["getNewsAPIArticles"][1])
    /\ result["getPolygonNews"][1] # result["getNewsAPIArticles"][1]
    /\ \E k \in 1..Len(locals["comprehensiveNews"]) :
           locals["comprehensiveNews"][k] = result["getNewsAPIArticles"][1]
    /\ \A k \in 1..Len(locals["comprehensiveNews"]) :
           locals["comprehensiveNews"][k] # result["getPolygonNews"][1]

\* what is left of the request: the stages of the handler still to run
\* and the calls still in flight
remainingWork ==
    Cardinality(Calls) * (CASE pc = "start" -> 3 [] pc = "batch1" -> 2 [] pc = "batch2" -> 1
                            [] OTHER -> 0)
        + Cardinality(inflight)

\* a step of the request is possible: the handler has not started, a call
\* is in flight and will settle, or the calls the handler awaits have all
\* settled and the handler resumes
canProceed ==
    \/ pc = "start"
    \/ inflight # {}
    \/ pc = "batch1" /\ Batch1(locals["assetType"]) \subseteq DOMAIN result
    \/ pc = "batch2" /\ Batch2 \subseteq DOMAIN result

\* C29: a request of POST /api/analyze has at most one response at any
\* time, has exactly one, with status 400, 500 or 200, from the moment its
\* handler has finished, and is never stuck before: while the handler has
\* not finished a step is possible, and every step reduces what is left of
\* the request, so that the response comes once every call has settled.
C29_ExactlyOneResponse ==
    /\ [](/\ Len(resp) <= 1
          /\ pc = "done" <=> Len(resp) = 1
          /\ \A i \in 1..Len(resp) : resp[i].status \in {400, 500, 200}
          /\ pc # "done" => canProceed)
    /\ [][remainingWork' < remainingWork]_vars

C29_Witness ==
    /\ route = "analyze"
    /\ pc = "done"
    /\ inflight = {}
    /\ Len(resp) = 1
    /\ resp[1].status = 500
    /\ req.symbol.t = "string"
    /\ locals["primaryData"].success

----------------------------------------------------------------------------
(* Properties of the chart indicators *)

\* C30: in the points addTechnicalIndicators returns, ema12 is null (0)
\* before index 11, is the mean of the first 12 closes at index 11, and at
\* every later index i is close[i] * 2/13 + ema12[i-1] * 11/13 of the
\* returned points, to the cent the code rounds to.
C30_EmaFromPreviousPoint ==
    (route = "addTechnicalIndicators" /\ pc = "done") =>
        LET points == locals["returned"]
        IN  \A p \in 1..Len(points) :
                LET i == points[p].index
                IN  /\ i = p - 1
                    /\ i < Ema12Window - 1 => points[p].ema12 = 0
                    /\ i = Ema12Window - 1 =>
                           points[p].ema12 =
                               meanCents(sumCloses(req.chartData, 1, Ema12Window), Ema12Window)
                    /\ i > Ema12Window - 1 =>
                           points[p].ema12 =
                               meanCents(2 * points[p].close
                                             + (Ema12Window - 1) * points[p - 1].ema12,
                                         Ema12Window + 1)

====
